---- MODULE Spec2Model ----
(***************************************************************************)
(* Natural-language-to-insight query pipeline of the Worker Operations BI  *)
(* backend: the warehouse gateway (SimpleSnowflakeConnection), its query   *)
(* safety validator, its metadata cache and the BI service that drives     *)
(* them.  Text is modelled as a sequence of one-character strings so that  *)
(* upper(), strip(), startswith(), `in' and the \b regular expression are  *)
(* computed character by character, as the code computes them.             *)
(***************************************************************************)
EXTENDS Integers, Sequences, FiniteSets, TLC

VARIABLES
    pc,          \* position of the request being served by the gateway caller
    caller,      \* which caller built the statement: pipeline, sample, ordered, digest, probe
    query,       \* the statement text handed to validate_query / execute_query
    validation,  \* verdict of validate_query: "none", "passed", "rejected"
    sent,        \* the text given to cursor.execute, <<>> when nothing was sent
    rows,        \* len(df) of the DataFrame execute_query returned, -1 when none
    error,       \* error string of the result, "" when none
    now,               \* time.time(), in seconds
    _schema_cache,     \* table name -> schema dict, the tables cached
    _table_list_cache, \* None or the cached table list
    _cache_timestamp,  \* the shared cache stamp
    filled_list,       \* history: when the cached table list was fetched
    filled_schema,     \* history: table name -> when its cached schema was fetched
    prev,              \* history: table name -> its last get_table_schema call since the last invalidation
    last,              \* history: the gateway call that returned last
    ppc,               \* position of process_natural_language_query
    user_query,        \* the user's text
    todo,              \* the tables whose schema is still to be put in the prompt
    ai_response,       \* the completion the assistant returned
    result,            \* the dict process_natural_language_query returns
    calls,             \* history: what this request did for its candidate query
    schema_info,       \* the table lines of the prompt's schema section
    run_status,        \* run.status of the assistant run, "none" when there is no run
    elapsed,           \* seconds since the wait for the run began
    sampled_schema,    \* the schema get_table_sample_ordered got for its table
    order_column,      \* the column it orders by, None when it found none
    ordered_query,     \* the statement it built
    sample_call,       \* the call's table and limit, the statements it ran, what it gave back
    df,                \* the DataFrame execute_query returned, None before
    df_cleaned,        \* what _clean_dataframe_for_json made of it, None before
    data_sample,       \* the frame generate_charts_from_data works on, None before
    charts,            \* the list it returned, None before
    running,           \* the coroutine the event loop is running, 0 when it runs none
    step,              \* request -> its position in the handler
    statements_done,   \* request -> statements finished in the gateway operation it is in
    cursor_open,       \* request -> a cursor of its is open, its statement in flight
    ai_content,        \* the completion text _parse_ai_response is given, None before
    parse_result,      \* the dict it returned, None before
    insight_reply,     \* what the assistant call for the insights did, None before
    analysis,          \* the result of _execute_and_analyze_query, None before
    user_threads,      \* self.user_threads: user id -> thread id, 0 when absent
    threads,           \* the threads of the service: whom each was created for, its messages
    assistant_call,    \* caller -> where its call awaits, its locals, what it returned
    user_row,          \* the account's row of the users table
    minute,            \* the present time of the login service
    login              \* what the last login_user did

sqlVars == <<pc, caller, query, validation, sent, rows, error>>
gwVars == <<now, _schema_cache, _table_list_cache, _cache_timestamp,
            filled_list, filled_schema, prev, last>>
pipeVars == <<ppc, user_query, todo, ai_response, result, calls, schema_info, run_status, elapsed>>
samplerVars == <<sampled_schema, order_column, ordered_query, sample_call>>
cleanVars == <<df, df_cleaned>>
chartVars == <<data_sample, charts>>
loopVars == <<running, step, statements_done, cursor_open>>
parseVars == <<ai_content, parse_result>>
insightVars == <<insight_reply, analysis>>
threadVars == <<user_threads, threads, assistant_call>>
loginVars == <<user_row, minute, login>>
extVars == <<samplerVars, cleanVars, chartVars, loopVars, parseVars, insightVars, threadVars,
             loginVars>>
vars == <<sqlVars, gwVars, pipeVars, extVars>>

(***************************************************************************)
(* Bounds of the model.                                                    *)
(***************************************************************************)
MaxPieces == 2       \* a candidate statement is built from at most this many pieces
MaxTableRows == 1500 \* rows the largest warehouse table holds

(***************************************************************************)
(* Python str primitives.                                                  *)
(***************************************************************************)
LowerCase == <<"a", "b", "c", "d", "e", "f", "g", "h", "i", "j", "k", "l", "m", "n", "o", "p", "q", "r", "s", "t", "u", "v", "w", "x", "y", "z">>
UpperCase == <<"A", "B", "C", "D", "E", "F", "G", "H", "I", "J", "K", "L", "M", "N", "O", "P", "Q", "R", "S", "T", "U", "V", "W", "X", "Y", "Z">>
Digits == <<"0", "1", "2", "3", "4", "5", "6", "7", "8", "9">>

InSeq(c, s) == \E i \in 1..Len(s) : s[i] = c

\* str.upper() on one character
upper_char(c) ==
    IF InSeq(c, LowerCase)
    THEN UpperCase[CHOOSE i \in 1..Len(LowerCase) : LowerCase[i] = c]
    ELSE c

\* str.upper()
upper(s) == [i \in 1..Len(s) |-> upper_char(s[i])]

\* str.isspace() on one character
isspace(c) == c \in {" ", "\n", "\t"}

\* str.strip()
strip(s) ==
    LET keep == {i \in 1..Len(s) : ~isspace(s[i])} IN
    IF keep = {} THEN <<>>
    ELSE LET lo == CHOOSE i \in keep : \A j \in keep : i <= j
             hi == CHOOSE i \in keep : \A j \in keep : j <= i
         IN SubSeq(s, lo, hi)

\* str.startswith(p)
startswith(s, p) == Len(p) <= Len(s) /\ SubSeq(s, 1, Len(p)) = p

\* str.endswith(p)
endswith(s, p) == Len(p) <= Len(s) /\ SubSeq(s, Len(s) - Len(p) + 1, Len(s)) = p

\* the occurrence of p in s that starts at index i
occurs_at(s, p, i) == i + Len(p) - 1 <= Len(s) /\ SubSeq(s, i, i + Len(p) - 1) = p

\* p in s
contains(s, p) == \E i \in 1..(Len(s) + 1) : occurs_at(s, p, i)

\* the regular expression class \w
is_word_char(c) == InSeq(c, LowerCase) \/ InSeq(c, UpperCase) \/ InSeq(c, Digits) \/ c = "_"

\* the regular expression assertion \b at the gap after index p (0 = start of text)
word_boundary(s, p) ==
    LET before == p >= 1 /\ is_word_char(s[p])
        after == p + 1 <= Len(s) /\ is_word_char(s[p + 1])
    IN before # after

\* a faulty variant: a plain substring test, `keyword in query_upper'
re_search_substring(keyword, s) == contains(s, keyword)

\* re.search(r'\b' + keyword + r'\b', s)
re_search_whole_word(keyword, s) ==
    \E i \in 1..Len(s) :
        /\ occurs_at(s, keyword, i)
        /\ word_boundary(s, i - 1)
        /\ word_boundary(s, i + Len(keyword) - 1)

\* str(n) of a natural number
RECURSIVE str_int(_)
str_int(n) == IF n < 10 THEN <<Digits[n + 1]>> ELSE str_int(n \div 10) \o <<Digits[(n % 10) + 1]>>

(***************************************************************************)
(* Text constants of the code.                                             *)
(***************************************************************************)
SELECT_ == <<"S", "E", "L", "E", "C", "T">>
WITH_ == <<"W", "I", "T", "H">>
LIMIT_ == <<"L", "I", "M", "I", "T">>
LIMIT_200 == <<" ", "L", "I", "M", "I", "T", " ", "2", "0", "0">>
LIMIT_200_SEMI == <<" ", "L", "I", "M", "I", "T", " ", "2", "0", "0", ";">>

\* a faulty variant: the list without its last keyword
dangerous_keywords_short ==
    << <<"D", "E", "L", "E", "T", "E">>, <<"D", "R", "O", "P">>, <<"I", "N", "S", "E", "R", "T">>, <<"U", "P", "D", "A", "T", "E">>, <<"A", "L", "T", "E", "R">>, <<"C", "R", "E", "A", "T", "E">> >>

dangerous_keywords ==
    << <<"D", "E", "L", "E", "T", "E">>, <<"D", "R", "O", "P">>, <<"I", "N", "S", "E", "R", "T">>, <<"U", "P", "D", "A", "T", "E">>, <<"A", "L", "T", "E", "R">>, <<"C", "R", "E", "A", "T", "E">>, <<"T", "R", "U", "N", "C", "A", "T", "E">> >>

\* connection_params['database'] (the deployment's SNOWFLAKE_DATABASE setting) and
\* connection_params['schema'] (its default), joined as the f-strings join them
database == <<"W", "O", "P", "S">>
schema == <<"P", "U", "B", "L", "I", "C">>

allowed_tables ==
    << "RPT_WOPS_AGENT_PERFORMANCE", "ZENDESK_TICKET_AGENT__HANDLE_TIME", "RPT_WOPS_TICKETS",
       "RPT_WOPS_TL_PERFORMANCE", "RPT_AGENT_SCHEDULE_ADHERENCE" >>

\* the characters of a table name, as the f-strings interpolate it
table_text(table) ==
    CASE table = "RPT_WOPS_AGENT_PERFORMANCE" -> <<"R", "P", "T", "_", "W", "O", "P", "S", "_", "A", "G", "E", "N", "T", "_", "P", "E", "R", "F", "O", "R", "M", "A", "N", "C", "E">>
      [] table = "ZENDESK_TICKET_AGENT__HANDLE_TIME" -> <<"Z", "E", "N", "D", "E", "S", "K", "_", "T", "I", "C", "K", "E", "T", "_", "A", "G", "E", "N", "T", "_", "_", "H", "A", "N", "D", "L", "E", "_", "T", "I", "M", "E">>
      [] table = "RPT_WOPS_TICKETS" -> <<"R", "P", "T", "_", "W", "O", "P", "S", "_", "T", "I", "C", "K", "E", "T", "S">>
      [] table = "RPT_WOPS_TL_PERFORMANCE" -> <<"R", "P", "T", "_", "W", "O", "P", "S", "_", "T", "L", "_", "P", "E", "R", "F", "O", "R", "M", "A", "N", "C", "E">>
      [] table = "RPT_AGENT_SCHEDULE_ADHERENCE" -> <<"R", "P", "T", "_", "A", "G", "E", "N", "T", "_", "S", "C", "H", "E", "D", "U", "L", "E", "_", "A", "D", "H", "E", "R", "E", "N", "C", "E">>
      [] OTHER -> <<"O", "T", "H", "E", "R", "_", "T", "A", "B", "L", "E">>

qualified(table) == database \o <<".">> \o schema \o <<".">> \o table_text(table)

(***************************************************************************)
(* validate_query.                                                         *)
(***************************************************************************)
\* a faulty variant: the keyword scan alone, without the statement-prefix test
validate_query_no_prefix(q) ==
    LET query_upper == strip(upper(q)) IN
    ~ \E k \in 1..Len(dangerous_keywords) : re_search_whole_word(dangerous_keywords[k], query_upper)

validate_query(q) ==
    LET query_upper == strip(upper(q)) IN
    IF ~(startswith(query_upper, SELECT_) \/ startswith(query_upper, WITH_))
    THEN FALSE
    ELSE IF \E k \in 1..Len(dangerous_keywords) :
                re_search_whole_word(dangerous_keywords[k], query_upper)
         THEN FALSE
         ELSE TRUE

(***************************************************************************)
(* execute_query: the LIMIT rewrite, then the warehouse.                   *)
(***************************************************************************)
\* the text execute_query gives to cursor.execute
execute_query_text(q) ==
    LET query_upper == strip(upper(q)) IN
    IF ~contains(query_upper, LIMIT_)
    THEN IF endswith(strip(q), <<";">>)
         THEN SubSeq(strip(q), 1, Len(strip(q)) - 1) \o LIMIT_200_SEMI
         ELSE q \o LIMIT_200
    ELSE q

\* the words of a statement, as the warehouse's lexer sees them, left to right
RECURSIVE words_from(_, _, _)
words_from(s, i, cur) ==
    IF i > Len(s) THEN (IF cur = <<>> THEN <<>> ELSE <<cur>>)
    ELSE IF is_word_char(s[i]) THEN words_from(s, i + 1, Append(cur, s[i]))
    ELSE (IF cur = <<>> THEN <<>> ELSE <<cur>>) \o words_from(s, i + 1, <<>>)

words(s) == words_from(s, 1, <<>>)

is_number(w) == w # <<>> /\ \A i \in 1..Len(w) : InSeq(w[i], Digits)

RECURSIVE int_of(_)
int_of(w) ==
    IF w = <<>> THEN 0
    ELSE 10 * int_of(SubSeq(w, 1, Len(w) - 1))
         + (CHOOSE d \in 0..9 : Digits[d + 1] = w[Len(w)])

\* the row limit the statement's own LIMIT clause sets, -1 when it has none
limit_clause(stmt) ==
    LET ws == words(upper(stmt))
        at == {i \in 1..(Len(ws) - 1) : ws[i] = LIMIT_ /\ is_number(ws[i + 1])}
    IN IF at = {} THEN -1
       ELSE int_of(ws[(CHOOSE i \in at : \A j \in at : j <= i) + 1])

Min(a, b) == IF a <= b THEN a ELSE b

\* len(cursor.fetchall()) for a statement over a source that holds avail rows
fetchall_len(stmt, avail) ==
    IF limit_clause(stmt) >= 0 THEN Min(avail, limit_clause(stmt)) ELSE avail

(***************************************************************************)
(* The statements the gateway's callers build.                             *)
(***************************************************************************)
\* get_available_tables: the 1-row existence probe
probe_query(table) == <<"S", "E", "L", "E", "C", "T", " ", "1", " ", "F", "R", "O", "M", " ">> \o qualified(table) \o <<" ", "L", "I", "M", "I", "T", " ", "1">>

\* get_table_sample
sample_query(table, limit) ==
    <<"S", "E", "L", "E", "C", "T", " ", "*", " ", "F", "R", "O", "M", " ">> \o qualified(table) \o <<" ", "L", "I", "M", "I", "T", " ">> \o str_int(limit)

\* get_table_sample_ordered, when an order column was found
ordered_sample_query(table, column, limit) ==
    <<"\n", " ", " ", " ", " ", " ", " ", " ", " ", " ", " ", " ", " ", " ", " ", " ", " ", "S", "E", "L", "E", "C", "T", " ", "*", " ", "F", "R", "O", "M", " ">> \o qualified(table)
    \o <<" ", "\n", " ", " ", " ", " ", " ", " ", " ", " ", " ", " ", " ", " ", " ", " ", " ", " ", "O", "R", "D", "E", "R", " ", "B", "Y", " ">> \o column
    \o <<" ", "D", "E", "S", "C", " ", "\n", " ", " ", " ", " ", " ", " ", " ", " ", " ", " ", " ", " ", " ", " ", " ", " ", "L", "I", "M", "I", "T", " ">> \o str_int(limit) \o <<"\n", " ", " ", " ", " ", " ", " ", " ", " ", " ", " ", " ", " ", " ", " ", " ", " ">>

DigestLimit == 1000

\* WeeklyDigestService._query_weekly_data
weekly_query(table, date_col) ==
    <<"\n", " ", " ", " ", " ", " ", " ", " ", " ", " ", " ", " ", " ", "S", "E", "L", "E", "C", "T", " ", "*", " ", "F", "R", "O", "M", " ">> \o qualified(table)
    \o <<"\n", " ", " ", " ", " ", " ", " ", " ", " ", " ", " ", " ", " ", "W", "H", "E", "R", "E", " ">> \o date_col \o <<" ", ">", "=", " ", "'", "2", "0", "2", "5", "-", "0", "7", "-", "1", "4", "'", " ", "A", "N", "D", " ">> \o date_col
    \o <<" ", "<", "=", " ", "'", "2", "0", "2", "5", "-", "0", "7", "-", "2", "0", "'", "\n", " ", " ", " ", " ", " ", " ", " ", " ", " ", " ", " ", " ", "O", "R", "D", "E", "R", " ", "B", "Y", " ">> \o date_col
    \o <<" ", "D", "E", "S", "C", "\n", " ", " ", " ", " ", " ", " ", " ", " ", " ", " ", " ", " ", "L", "I", "M", "I", "T", " ">> \o str_int(DigestLimit) \o <<"\n", " ", " ", " ", " ", " ", " ", " ", " ", " ", " ", " ", " ">>

(***************************************************************************)
(* Inputs: candidate statements, table sizes, sample limits.               *)
(***************************************************************************)
Prefixes ==
    { <<>>, <<"S", "E", "L", "E", "C", "T", " ">>, <<" ", "w", "i", "t", "h", " ">>, <<"S", "e", "l", "e", "c", "t", " ", "1", ";", " ">>, <<"S", "E", "L", "E", "C", "T", "E", "D", "_">> }

Pieces ==
    { <<"D", "E", "L", "E", "T", "E">>, <<"D", "R", "O", "P">>, <<"I", "N", "S", "E", "R", "T">>, <<"U", "P", "D", "A", "T", "E">>, <<"A", "L", "T", "E", "R">>, <<"C", "R", "E", "A", "T", "E">>, <<"T", "R", "U", "N", "C", "A", "T", "E">>,
      <<"D", "r", "o", "p">>, <<"D", "_", "A", "T">>, <<"X", "_">>, <<" ">>, <<";">>, <<" ", "F", "R", "O", "M", " ", "T">>,
      <<"R", "A", "T", "E", "_", "L", "I", "M", "I", "T">>, <<" ", "l", "i", "m", "i", "t", " ", "5", "0", "0">>, <<" ", "L", "I", "M", "I", "T", " ", "5">> }

RECURSIVE PieceTexts(_)
PieceTexts(n) ==
    IF n = 0 THEN {<<>>}
    ELSE PieceTexts(n - 1) \cup {t \o p : t \in PieceTexts(n - 1), p \in Pieces}

Scenario_DropFirst == <<"D", "R", "O", "P", " ", "T", "A", "B", "L", "E", " ", "R", "P", "T", "_", "W", "O", "P", "S", "_", "T", "I", "C", "K", "E", "T", "S", ";", " ", "S", "E", "L", "E", "C", "T", " ", "1">>
Scenario_DropLast == <<"S", "E", "L", "E", "C", "T", " ", "1", ";", " ", "D", "R", "O", "P", " ", "T", "A", "B", "L", "E", " ", "T">>
Scenario_NoLimit == <<"S", "E", "L", "E", "C", "T", " ", "A", "G", "E", "N", "T", "_", "N", "A", "M", "E", ",", " ", "A", "D", "H", "E", "R", "E", "N", "C", "E", "_", "P", "E", "R", "C", "E", "N", "T", "A", "G", "E", " ", "F", "R", "O", "M", " ", "R", "P", "T", "_", "A", "G", "E", "N", "T", "_", "S", "C", "H", "E", "D", "U", "L", "E", "_", "A", "D", "H", "E", "R", "E", "N", "C", "E">>
Scenario_UpdatedAt == <<"S", "E", "L", "E", "C", "T", " ", "U", "P", "D", "A", "T", "E", "D", "_", "A", "T", " ", "F", "R", "O", "M", " ", "T">>
Scenario_Update == <<"U", "P", "D", "A", "T", "E", " ", "T", " ", "S", "E", "T", " ", "X", " ", "=", " ", "1">>
Scenario_Identifiers == <<"S", "E", "L", "E", "C", "T", " ", "C", "R", "E", "A", "T", "E", "D", "_", "D", "A", "T", "E", ",", " ", "D", "R", "O", "P", "P", "E", "D", "_", "C", "A", "L", "L", "S", " ", "F", "R", "O", "M", " ", "T", ";">>

Scenarios ==
    { Scenario_DropFirst, Scenario_DropLast, Scenario_NoLimit, Scenario_UpdatedAt,
      Scenario_Update, Scenario_Identifiers }

Candidates == {p \o t : p \in Prefixes, t \in PieceTexts(MaxPieces)} \cup Scenarios

BigLimit == 5000
SampleLimits == {3, 10, 50, BigLimit}
TableSizes == {0, 150, 250, MaxTableRows}
OrderColumns == { <<"S", "O", "L", "V", "E", "D", "_", "W", "E", "E", "K">>, <<"A", "D", "H", "E", "R", "E", "N", "C", "E", "_", "D", "A", "T", "E">> }

(***************************************************************************)
(* The callers of validate_query and execute_query, one request at a time. *)
(***************************************************************************)
SqlInit ==
    /\ pc = "idle"
    /\ caller = "none"
    /\ query = <<>>
    /\ validation = "none"
    /\ sent = <<>>
    /\ rows = -1
    /\ error = ""

\* execute_query(q) returning a DataFrame; a warehouse error propagates (raises)
execute_query(q, avail, ok) ==
    /\ sent' = execute_query_text(q)
    /\ rows' = IF ok THEN fetchall_len(execute_query_text(q), avail) ELSE -1
    /\ error' = IF ok THEN "" ELSE "warehouse error"

\* BIService._execute_and_analyze_query: the validation step
ValidateCandidate ==
    /\ pc = "idle"
    /\ \E q \in Candidates :
        /\ query' = q
        /\ validation' = IF validate_query(q) THEN "passed" ELSE "rejected"
    /\ caller' = "pipeline"
    /\ pc' = "validated"
    /\ UNCHANGED <<sent, rows, error>>
    /\ UNCHANGED <<gwVars, pipeVars, extVars>>

\* BIService._execute_and_analyze_query: the early return on a failed validation
RejectCandidate ==
    /\ pc = "validated"
    /\ validation = "rejected"
    /\ error' = "Query contains forbidden operations"
    /\ pc' = "returned"
    /\ UNCHANGED <<caller, query, validation, sent, rows>>
    /\ UNCHANGED <<gwVars, pipeVars, extVars>>

\* BIService._execute_and_analyze_query: execute_query on the validated candidate
ExecuteCandidate ==
    /\ pc = "validated"
    /\ validation = "passed"
    /\ \E avail \in TableSizes, ok \in BOOLEAN : execute_query(query, avail, ok)
    /\ pc' = "returned"
    /\ UNCHANGED <<caller, query, validation>>
    /\ UNCHANGED <<gwVars, pipeVars, extVars>>

\* get_table_sample (the sample endpoint): an error yields the empty DataFrame
SampleTable ==
    /\ pc = "idle"
    /\ \E k \in 1..Len(allowed_tables), limit \in SampleLimits, avail \in TableSizes, ok \in BOOLEAN :
        /\ query' = sample_query(allowed_tables[k], limit)
        /\ sent' = execute_query_text(sample_query(allowed_tables[k], limit))
        /\ rows' = IF ok THEN fetchall_len(sent', avail) ELSE 0
    /\ caller' = "sample"
    /\ pc' = "returned"
    /\ UNCHANGED <<validation, error>>
    /\ UNCHANGED <<gwVars, pipeVars, extVars>>

\* get_table_sample_ordered with an order column; on an error the plain sample
OrderedSampleTable ==
    /\ pc = "idle"
    /\ \E k \in 1..Len(allowed_tables), col \in OrderColumns, limit \in SampleLimits,
          avail \in TableSizes, ok \in BOOLEAN, ok2 \in BOOLEAN :
        IF ok
        THEN /\ query' = ordered_sample_query(allowed_tables[k], col, limit)
             /\ sent' = execute_query_text(query')
             /\ rows' = fetchall_len(sent', avail)
        ELSE /\ query' = sample_query(allowed_tables[k], limit)
             /\ sent' = execute_query_text(query')
             /\ rows' = IF ok2 THEN fetchall_len(sent', avail) ELSE 0
    /\ caller' = "ordered"
    /\ pc' = "returned"
    /\ UNCHANGED <<validation, error>>
    /\ UNCHANGED <<gwVars, pipeVars, extVars>>

\* WeeklyDigestService._query_weekly_data: an error yields the empty DataFrame
WeeklyData ==
    /\ pc = "idle"
    /\ \E k \in 1..Len(allowed_tables), col \in OrderColumns, avail \in TableSizes, ok \in BOOLEAN :
        /\ query' = weekly_query(allowed_tables[k], col)
        /\ sent' = execute_query_text(query')
        /\ rows' = IF ok THEN fetchall_len(sent', avail) ELSE 0
    /\ caller' = "digest"
    /\ pc' = "returned"
    /\ UNCHANGED <<validation, error>>
    /\ UNCHANGED <<gwVars, pipeVars, extVars>>

\* get_available_tables: one existence probe through execute_query
ProbeTable ==
    /\ pc = "idle"
    /\ \E k \in 1..Len(allowed_tables), avail \in TableSizes, ok \in BOOLEAN :
        /\ query' = probe_query(allowed_tables[k])
        /\ execute_query(query', avail, ok)
    /\ caller' = "probe"
    /\ pc' = "returned"
    /\ UNCHANGED validation
    /\ UNCHANGED <<gwVars, pipeVars, extVars>>

\* the caller has its answer; the next request starts from scratch
ReturnToCaller ==
    /\ pc = "returned"
    /\ pc' = "idle"
    /\ caller' = "none"
    /\ query' = <<>>
    /\ validation' = "none"
    /\ sent' = <<>>
    /\ rows' = -1
    /\ error' = ""
    /\ UNCHANGED <<gwVars, pipeVars, extVars>>

SqlNext ==
    \/ ValidateCandidate
    \/ RejectCandidate
    \/ ExecuteCandidate
    \/ SampleTable
    \/ OrderedSampleTable
    \/ WeeklyData
    \/ ProbeTable
    \/ ReturnToCaller



(***************************************************************************)
(* The metadata cache of the gateway: get_available_tables,                *)
(* get_table_schema, _invalidate_cache, and the clock.                     *)
(***************************************************************************)
_cache_ttl == 3600

StartTime == 7200   \* time.time() when the gateway is constructed
TickLen == 1800     \* seconds the clock advances in one step
MaxTicks == 3       \* steps the clock takes

None == <<>>
Some(x) == <<x>>

AllowedSet == {allowed_tables[k] : k \in 1..Len(allowed_tables)}
\* the tables whose schema the endpoint's callers ask for
SchemaTables == {"RPT_WOPS_TICKETS", "RPT_AGENT_SCHEDULE_ADHERENCE"}

\* what the warehouse may answer to the five existence probes: the set that succeed
FlakyTables == {allowed_tables[3]}
ProbeOutcomes == {{}} \cup {AllowedSet \ f : f \in SUBSET FlakyTables}

\* what DESCRIBE TABLE may return: rows of name, type, null?, default
PerformanceRows ==
    << [name |-> "SOLVED_WEEK", type |-> "DATE", null |-> "Y", default |-> "None"],
       [name |-> "AHT_MINUTES", type |-> "NUMBER(38,2)", null |-> "N", default |-> "None"] >>

AdherenceRows ==
    << [name |-> "AGENT_NAME", type |-> "VARCHAR(255)", null |-> "N", default |-> "None"],
       [name |-> "ADHERENCE_PERCENTAGE", type |-> "VARCHAR(16)", null |-> "Y", default |-> "'-'"],
       [name |-> "LOADED", type |-> "TIMESTAMP_NTZ(9)", null |-> "Y", default |-> "None"] >>

DescribeOutputs == {PerformanceRows, AdherenceRows}

\* cursor.description of the fallback SELECT * ... LIMIT 1
column_names(describe_rows) == [i \in 1..Len(describe_rows) |-> describe_rows[i].name]

\* get_table_schema: the schema dict built from the DESCRIBE rows, in row order
schema_from_describe(describe_rows) ==
    [i \in 1..Len(describe_rows) |->
        [name |-> describe_rows[i].name,
         type |-> describe_rows[i].type,
         nullable |-> (describe_rows[i].null = "Y"),
         default |-> describe_rows[i].default]]

\* a faulty variant: the fallback marks its columns as not nullable
schema_from_sample_not_nullable(columns) ==
    [i \in 1..Len(columns) |->
        [name |-> columns[i], type |-> "VARCHAR", nullable |-> FALSE, default |-> "None"]]

\* get_table_schema: the fallback schema dict built from the sample's columns
schema_from_sample(columns) ==
    [i \in 1..Len(columns) |->
        [name |-> columns[i], type |-> "VARCHAR", nullable |-> TRUE, default |-> "None"]]

\* a faulty variant: the comparison turned round
_is_cache_valid_reversed == (now - _cache_timestamp) > _cache_ttl

_is_cache_valid == (now - _cache_timestamp) < _cache_ttl

\* a faulty variant: the stamp is left as it was
_update_cache_timestamp_skipped == _cache_timestamp

\* the value _update_cache_timestamp stores in _cache_timestamp
_update_cache_timestamp == now

NoCall ==
    [op |-> "none", table |-> "", time |-> 0, hit |-> FALSE, stale |-> FALSE,
     outcome |-> "none", stmts |-> <<>>, result |-> <<>>, filledAt |-> 0, before |-> None,
     probes_ok |-> {}]

GwInit ==
    /\ now = StartTime
    /\ _schema_cache = <<>>
    /\ _table_list_cache = None
    /\ _cache_timestamp = 0
    /\ filled_list = 0
    /\ filled_schema = <<>>
    /\ prev = <<>>
    /\ last = NoCall

\* a faulty variant: the candidates are returned without their probes' verdict
existing_tables_unverified(probes_ok) == allowed_tables

\* get_available_tables: the list its loop builds, given the set of tables whose
\* probe succeeds
existing_tables(probes_ok) == SelectSeq(allowed_tables, LAMBDA t : t \in probes_ok)

\* get_available_tables, given the set of tables whose probe succeeds
get_available_tables(probes_ok) ==
    IF _table_list_cache # None /\ _is_cache_valid
    THEN /\ last' = [NoCall EXCEPT !.op = "listTables", !.time = now, !.hit = TRUE,
                                   !.outcome = "cached", !.result = _table_list_cache[1],
                                   !.filledAt = filled_list]
         /\ UNCHANGED <<_schema_cache, _table_list_cache, _cache_timestamp,
                        filled_list, filled_schema, prev>>
    ELSE /\ _table_list_cache' = Some(existing_tables(probes_ok))
         /\ _cache_timestamp' = _update_cache_timestamp
         /\ filled_list' = now
         /\ last' = [NoCall EXCEPT !.op = "listTables", !.time = now,
                                   !.stale = ~_is_cache_valid,
                                   !.outcome = IF probes_ok = {} THEN "none verified"
                                               ELSE "verified",
                                   !.stmts = [k \in 1..Len(allowed_tables) |->
                                                 [kind |-> "probe", table |-> allowed_tables[k]]],
                                   !.result = existing_tables(probes_ok),
                                   !.probes_ok = probes_ok,
                                   !.filledAt = now]
         /\ UNCHANGED <<_schema_cache, filled_schema, prev>>

\* what a later get_table_schema call for the table is compared with
Remember(table, returned, epoch, got, refreshed) ==
    (table :> [result |-> returned, epoch |-> epoch, got |-> got, refreshed |-> refreshed]) @@ prev

Before(table) == IF table \in DOMAIN prev THEN Some(prev[table]) ELSE None

\* get_table_schema, given what the warehouse answers to DESCRIBE TABLE and to the
\* fallback SELECT * ... LIMIT 1
get_table_schema(table_name, describe_ok, sample_ok, describe_rows) ==
    IF table_name \in DOMAIN _schema_cache /\ _is_cache_valid
    THEN /\ last' = [NoCall EXCEPT !.op = "getSchema", !.table = table_name, !.time = now,
                                   !.hit = TRUE, !.outcome = "cached",
                                   !.result = _schema_cache[table_name],
                                   !.filledAt = filled_schema[table_name],
                                   !.before = Before(table_name)]
         /\ prev' = Remember(table_name, _schema_cache[table_name], _cache_timestamp,
                             TRUE, FALSE)
         /\ UNCHANGED <<_schema_cache, _table_list_cache, _cache_timestamp,
                        filled_list, filled_schema>>
    ELSE IF describe_ok \/ sample_ok
    THEN LET fetched == IF describe_ok THEN schema_from_describe(describe_rows)
                        ELSE schema_from_sample(column_names(describe_rows))
         IN
         /\ _schema_cache' = (table_name :> fetched) @@ _schema_cache
         /\ _cache_timestamp' = _update_cache_timestamp
         /\ filled_schema' = (table_name :> now) @@ filled_schema
         /\ last' = [NoCall EXCEPT !.op = "getSchema", !.table = table_name, !.time = now,
                                   !.stale = ~_is_cache_valid,
                                   !.outcome = IF describe_ok THEN "described" ELSE "sampled",
                                   !.stmts = IF describe_ok
                                             THEN <<[kind |-> "describe", table |-> table_name]>>
                                             ELSE <<[kind |-> "describe", table |-> table_name],
                                                    [kind |-> "sample", table |-> table_name]>>,
                                   !.result = fetched,
                                   !.filledAt = now,
                                   !.before = Before(table_name)]
         /\ prev' = Remember(table_name, fetched, _cache_timestamp', TRUE, ~_is_cache_valid)
         /\ UNCHANGED <<_table_list_cache, filled_list>>
    ELSE /\ last' = [NoCall EXCEPT !.op = "getSchema", !.table = table_name, !.time = now,
                                   !.stale = ~_is_cache_valid,
                                   !.outcome = "failed",
                                   !.stmts = <<[kind |-> "describe", table |-> table_name],
                                               [kind |-> "sample", table |-> table_name]>>,
                                   !.before = Before(table_name)]
         /\ prev' = Remember(table_name, <<>>, _cache_timestamp, FALSE, FALSE)
         /\ UNCHANGED <<_schema_cache, _table_list_cache, _cache_timestamp,
                        filled_list, filled_schema>>

\* GET /tables, and every other caller of get_available_tables
ListTables ==
    /\ \E probes_ok \in ProbeOutcomes : get_available_tables(probes_ok)
    /\ UNCHANGED <<now, sqlVars, pipeVars, extVars>>

\* GET /tables/{table_name}/schema, and every other caller of get_table_schema
GetSchema ==
    /\ \E table_name \in SchemaTables, describe_ok \in BOOLEAN, sample_ok \in BOOLEAN,
          describe_rows \in DescribeOutputs :
        get_table_schema(table_name, describe_ok, sample_ok, describe_rows)
    /\ UNCHANGED <<now, sqlVars, pipeVars, extVars>>

\* _invalidate_cache
Invalidate ==
    /\ _schema_cache' = <<>>
    /\ _table_list_cache' = None
    /\ _cache_timestamp' = 0
    /\ filled_list' = 0
    /\ filled_schema' = <<>>
    /\ prev' = <<>>
    /\ last' = [NoCall EXCEPT !.op = "invalidate", !.time = now]
    /\ UNCHANGED <<now, sqlVars, pipeVars, extVars>>

\* time.time() moves on
Tick ==
    /\ now < StartTime + MaxTicks * TickLen
    /\ now' = now + TickLen
    /\ UNCHANGED <<_schema_cache, _table_list_cache, _cache_timestamp,
                   filled_list, filled_schema, prev, last, sqlVars, pipeVars, extVars>>

CacheNext ==
    \/ ListTables
    \/ GetSchema
    \/ Invalidate
    \/ Tick


(***************************************************************************)
(* get_table_sample_ordered: the choice of the order column.               *)
(***************************************************************************)
MaxColumns == 3   \* columns of the schemas the sampler is given

audit_patterns ==
    << <<"C", "R", "E", "A", "T", "E", "D", "_", "A", "T">>, <<"U", "P", "D", "A", "T", "E", "D", "_", "A", "T">>, <<"C", "R", "E", "A", "T", "E", "D", "_", "D", "A", "T", "E">>, <<"U", "P", "D", "A", "T", "E", "D", "_", "D", "A", "T", "E">>,
       <<"T", "I", "M", "E", "S", "T", "A", "M", "P">>, <<"D", "A", "T", "E", "_", "C", "R", "E", "A", "T", "E", "D">>, <<"D", "A", "T", "E", "_", "U", "P", "D", "A", "T", "E", "D">>, <<"A", "U", "D", "I", "T", "_", "D", "A", "T", "E">>,
       <<"C", "R", "E", "A", "T", "E", "D", "_", "T", "I", "M", "E">>, <<"U", "P", "D", "A", "T", "E", "D", "_", "T", "I", "M", "E">>, <<"L", "A", "S", "T", "_", "M", "O", "D", "I", "F", "I", "E", "D">>, <<"R", "E", "C", "O", "R", "D", "_", "D", "A", "T", "E">>,
       <<"E", "T", "L", "_", "T", "I", "M", "E", "S", "T", "A", "M", "P">>, <<"L", "O", "A", "D", "_", "D", "A", "T", "E">>, <<"S", "O", "L", "V", "E", "D", "_", "W", "E", "E", "K">>, <<"A", "D", "H", "E", "R", "E", "N", "C", "E", "_", "D", "A", "T", "E">> >>

date_types == << <<"D", "A", "T", "E">>, <<"T", "I", "M", "E", "S", "T", "A", "M", "P">>, <<"T", "I", "M", "E">> >>

\* the columns a table may declare: name and declared type
Column(name, type) == [name |-> name, type |-> type]

SamplerColumns ==
    { Column(<<"S", "O", "L", "V", "E", "D", "_", "W", "E", "E", "K">>, <<"D", "A", "T", "E">>),
      Column(<<"A", "H", "T", "_", "M", "I", "N", "U", "T", "E", "S">>, <<"N", "U", "M", "B", "E", "R", "(", "3", "8", ",", "2", ")">>),
      Column(<<"c", "r", "e", "a", "t", "e", "d", "_", "a", "t">>, <<"T", "I", "M", "E", "S", "T", "A", "M", "P", "_", "N", "T", "Z", "(", "9", ")">>),
      Column(<<"L", "O", "A", "D", "_", "D", "A", "T", "E">>, <<"V", "A", "R", "C", "H", "A", "R">>),
      Column(<<"A", "G", "E", "N", "T", "_", "N", "A", "M", "E">>, <<"V", "A", "R", "C", "H", "A", "R", "(", "2", "5", "5", ")">>),
      Column(<<"S", "H", "I", "F", "T", "_", "S", "T", "A", "R", "T">>, <<"t", "i", "m", "e", "(", "9", ")">>),
      Column(<<"B", "I", "R", "T", "H", "D", "A", "Y">>, <<"D", "A", "T", "E">>) }

RECURSIVE SchemasOf(_)
SchemasOf(n) ==
    IF n = 0 THEN {<<>>}
    ELSE SchemasOf(n - 1)
         \cup {Append(s, c) : s \in {t \in SchemasOf(n - 1) : Len(t) = n - 1},
                              c \in SamplerColumns}

\* schema dicts: the keys are distinct
SamplerSchemas ==
    {s \in SchemasOf(MaxColumns) : \A i, j \in 1..Len(s) : i # j => s[i].name # s[j].name}

\* the first index of a sequence that satisfies a test, 0 when none does
first_index(s, Test(_)) ==
    IF \E i \in 1..Len(s) : Test(s[i])
    THEN CHOOSE i \in 1..Len(s) : Test(s[i]) /\ \A j \in 1..(i - 1) : ~Test(s[j])
    ELSE 0

\* a faulty variant: the columns in the outer loop, the patterns in the inner one
name_match_columns_first(schema_) ==
    first_index(schema_, LAMBDA c : \E k \in 1..Len(audit_patterns) :
                                        contains(upper(c.name), audit_patterns[k]))

\* the loop `for pattern in audit_patterns: for col_name in schema.keys()': the
\* index of the column it stops at, 0 when it runs to the end
name_match(schema_) ==
    LET hit(pattern) == first_index(schema_, LAMBDA c : contains(upper(c.name), pattern))
        p == first_index(audit_patterns, LAMBDA pattern : hit(pattern) # 0)
    IN IF p = 0 THEN 0 ELSE hit(audit_patterns[p])

\* a faulty variant: only DATE is looked for in the declared type
type_match_date_only(schema_) ==
    first_index(schema_, LAMBDA c : contains(upper(c.type), date_types[1]))

\* the loop over schema.items() that looks at the declared type
type_match(schema_) ==
    first_index(schema_, LAMBDA c : \E k \in 1..Len(date_types) :
                                        contains(upper(c.type), date_types[k]))

\* the order column get_table_sample_ordered settles on
pick_order_column(schema_) ==
    IF name_match(schema_) # 0 THEN Some(schema_[name_match(schema_)].name)
    ELSE IF type_match(schema_) # 0 THEN Some(schema_[type_match(schema_)].name)
    ELSE None

\* what execute_query does with a statement: a frame of rows, or it raises
ExecuteOutcomes == {"rows", "raises"}

NoSampleCall == [table |-> "", limit |-> 0, stmts |-> <<>>, returned |-> "none"]

\* a faulty variant: the failure of the unordered statement is not caught
get_table_sample_unguarded(outcome) == outcome

\* get_table_sample: what it returns for the outcome of its statement; the
\* except branch returns pd.DataFrame()
get_table_sample(outcome) == IF outcome = "raises" THEN "empty" ELSE outcome

\* get_table_sample_ordered: what it returns for the outcome of its statement
\* and of the statement of the except branch
get_table_sample_ordered(first, second) ==
    IF first = "raises" THEN get_table_sample(second) ELSE first

SamplerInit ==
    /\ sampled_schema = <<>>
    /\ order_column = None
    /\ ordered_query = <<>>
    /\ sample_call = NoSampleCall

\* get_table_sample_ordered(table_name, limit) for the schema get_table_schema
\* returned: the statement it builds and runs, and get_table_sample(table_name,
\* limit) in the except branch when that statement raises
OrderedSample ==
    /\ ordered_query = <<>>
    /\ \E table \in SchemaTables, schema_ \in SamplerSchemas, limit \in {3, 50},
          first \in ExecuteOutcomes, second \in ExecuteOutcomes :
        \E picked \in {pick_order_column(schema_)} :
            /\ first = "rows" => second = "rows"
            /\ sampled_schema' = schema_
            /\ order_column' = picked
            /\ ordered_query' = IF picked # None
                                THEN ordered_sample_query(table, picked[1], limit)
                                ELSE sample_query(table, limit)
            /\ sample_call' =
                [table |-> table, limit |-> limit,
                 stmts |-> IF first = "raises"
                           THEN <<ordered_query', sample_query(table, limit)>>
                           ELSE <<ordered_query'>>,
                 returned |-> get_table_sample_ordered(first, second)]
    /\ UNCHANGED <<cleanVars, chartVars, loopVars, parseVars, insightVars, threadVars, loginVars, sqlVars, gwVars, pipeVars>>

\* the sample went back to the caller; the next call starts
SampleReturned ==
    /\ ordered_query # <<>>
    /\ sampled_schema' = <<>>
    /\ order_column' = None
    /\ ordered_query' = <<>>
    /\ sample_call' = NoSampleCall
    /\ UNCHANGED <<cleanVars, chartVars, loopVars, parseVars, insightVars, threadVars, loginVars, sqlVars, gwVars, pipeVars>>

SamplerNext ==
    \/ OrderedSample
    \/ SampleReturned

(***************************************************************************)
(* _clean_dataframe_for_json.  A frame is a sequence of columns, a column  *)
(* a dtype and its cells.  A cell is a tuple that names the kind of its     *)
(* value: an integer, a finite float, the infinities, NaN, the nulls None  *)
(* and pd.NA, and <<"text", s>> for the text s.                            *)
(***************************************************************************)
CleanRows == 2
MaxCleanColumns == 2

IntCell == <<"int">>
Finite == <<"finite">>
PosInf == <<"+inf">>
NegInf == <<"-inf">>
NaN == <<"nan">>
NoneCell == <<"None">>
NA == <<"NA">>
Text(s) == <<"text", s>>
IsText(cell) == Len(cell) = 2

\* the values a fetched row can hold in one column
FetchedCells ==
    {IntCell, Finite, PosInf, NegInf, NaN, NoneCell, Text("east"), Text("nan")}

\* pd.DataFrame(results, columns=columns): the dtype pandas infers for a column
\* of fetched values, and the cells as that dtype holds them
infer_dtype(cells) ==
    IF \A i \in 1..Len(cells) : cells[i] = IntCell THEN "int64"
    ELSE IF /\ \A i \in 1..Len(cells) : ~IsText(cells[i])
            /\ \E i \in 1..Len(cells) : cells[i] # NoneCell
    THEN "float64"
    ELSE "object"

DataFrameColumn(cells) ==
    [dtype |-> infer_dtype(cells),
     cells |-> IF infer_dtype(cells) = "float64"
               THEN [i \in 1..Len(cells) |->
                        CASE cells[i] = NoneCell -> NaN
                          [] cells[i] = IntCell -> Finite
                          [] OTHER -> cells[i]]
               ELSE cells]

DataFrame(results) == [c \in 1..Len(results) |-> DataFrameColumn(results[c])]

\* the frames execute_query returns
FetchedColumns == [1..CleanRows -> FetchedCells]
FetchedResults == UNION {[1..n -> FetchedColumns] : n \in 1..MaxCleanColumns}

\* a column with each cell mapped
map_cells(column, F(_)) ==
    [column EXCEPT !.cells = [i \in 1..Len(column.cells) |-> F(column.cells[i])]]

\* a faulty variant: the infinities are left in place
replace_inf_skipped(frame) == frame

\* df_cleaned.replace([np.inf, -np.inf], np.nan)
replace_inf(frame) ==
    [c \in 1..Len(frame) |->
        map_cells(frame[c], LAMBDA cell : IF cell \in {PosInf, NegInf} THEN NaN ELSE cell)]

\* str(value) of a cell of an object column
str(cell) ==
    CASE cell = NaN -> Text("nan")
      [] cell = NoneCell -> Text("None")
      [] cell = PosInf -> Text("inf")
      [] cell = NegInf -> Text("-inf")
      [] cell = IntCell -> Text("1")
      [] cell = Finite -> Text("1.5")
      [] OTHER -> cell

\* the loop body: the conversion of one column by its dtype
convert(column) ==
    IF column.dtype = "object"
    THEN \* .astype(str).replace('nan', None)
         map_cells(map_cells(column, str),
                   LAMBDA cell : IF cell = Text("nan") THEN NoneCell ELSE cell)
    ELSE IF column.dtype = "int64"
    THEN [column EXCEPT !.dtype = "Int64"]
    ELSE \* .astype('Float64'): the NaN of a float column becomes pd.NA
         [map_cells(column, LAMBDA cell : IF cell = NaN THEN NA ELSE cell)
            EXCEPT !.dtype = "Float64"]

\* pd.notnull of a cell
notnull(cell) == cell \notin {NaN, NoneCell, NA}

\* df_cleaned.where(pd.notnull(df_cleaned), None): a null of an object column
\* becomes None, a null of a masked column stays pd.NA
where_notnull(frame) ==
    [c \in 1..Len(frame) |->
        map_cells(frame[c],
                  LAMBDA cell : IF notnull(cell) THEN cell
                                ELSE IF frame[c].dtype = "object" THEN NoneCell ELSE NA)]

_clean_dataframe_for_json(frame) ==
    LET replaced == replace_inf(frame) IN
    where_notnull([c \in 1..Len(replaced) |-> convert(replaced[c])])

CleanInit ==
    /\ df = <<>>
    /\ df_cleaned = <<>>

\* execute_query returns a frame
FrameFetched ==
    /\ df = <<>>
    /\ \E results \in FetchedResults : df' = DataFrame(results)
    /\ UNCHANGED <<df_cleaned, samplerVars, chartVars, loopVars, parseVars, insightVars, threadVars, loginVars, sqlVars, gwVars, pipeVars>>

\* df_cleaned = self._clean_dataframe_for_json(df)
Clean ==
    /\ df # <<>>
    /\ df_cleaned = <<>>
    /\ df_cleaned' = _clean_dataframe_for_json(df)
    /\ UNCHANGED <<df, samplerVars, chartVars, loopVars, parseVars, insightVars, threadVars, loginVars, sqlVars, gwVars, pipeVars>>

\* the cleaned frame went into the result; the next statement runs
FrameReturned ==
    /\ df_cleaned # <<>>
    /\ df' = <<>>
    /\ df_cleaned' = <<>>
    /\ UNCHANGED <<samplerVars, chartVars, loopVars, parseVars, insightVars, threadVars, loginVars, sqlVars, gwVars, pipeVars>>

CleanNext == FrameFetched \/ Clean \/ FrameReturned

(***************************************************************************)
(* generate_charts_from_data.  A frame is its columns (name and dtype) and *)
(* its rows, a row the tuple of its cells in column order.  The mean of a  *)
(* group is kept as the pair <<sum, count>>.                               *)
(***************************************************************************)
MaxChartRows == 5
MaxCharts == 3

\* the texts of a grouping column, in their sort order
ChartLabels == <<"central", "east", "north", "south", "west">>
ChartCounts == {1, 2}
WeekLabels == <<"2024-W01", "2024-W02">>
MaxTrendRows == 3

\* the results with a text column REGION and an integer column COUNT
RegionCountFrames ==
    {[columns |-> << [name |-> <<"R", "E", "G", "I", "O", "N">>, dtype |-> "object"],
                     [name |-> <<"C", "O", "U", "N", "T">>, dtype |-> "int64"] >>,
      rows |-> r] :
        r \in UNION {[1..n -> {<<l, c>> : l \in {ChartLabels[k] : k \in 1..Len(ChartLabels)},
                                          c \in ChartCounts}] : n \in 1..MaxChartRows}}

\* the results with a text column SOLVED_WEEK and one or two integer columns
TrendFrames ==
    {[columns |-> << [name |-> <<"S", "O", "L", "V", "E", "D", "_", "W", "E", "E", "K">>, dtype |-> "object"],
                     [name |-> <<"C", "O", "U", "N", "T">>, dtype |-> "int64"] >>,
      rows |-> r] :
        r \in UNION {[1..n -> {<<w, c>> : w \in {WeekLabels[k] : k \in 1..Len(WeekLabels)},
                                          c \in ChartCounts}] : n \in 1..MaxTrendRows}}
    \cup
    {[columns |-> << [name |-> <<"S", "O", "L", "V", "E", "D", "_", "W", "E", "E", "K">>, dtype |-> "object"],
                     [name |-> <<"C", "O", "U", "N", "T">>, dtype |-> "int64"],
                     [name |-> <<"A", "H", "T", "_", "M", "I", "N", "U", "T", "E", "S">>, dtype |-> "int64"] >>,
      rows |-> r] :
        r \in UNION {[1..n -> {<<w, c, 5>> : w \in {WeekLabels[k] : k \in 1..Len(WeekLabels)},
                                             c \in ChartCounts}] : n \in 1..MaxTrendRows}}

head(s, n) == SubSeq(s, 1, Min(n, Len(s)))

\* data.select_dtypes(include=...).columns.tolist(): the columns, by position
select_dtypes(frame, dtypes) ==
    SelectSeq([i \in 1..Len(frame.columns) |-> i],
              LAMBDA i : frame.columns[i].dtype \in dtypes)

\* the texts of the grouping columns in their sort order: digits before letters
SortedTexts == WeekLabels \o ChartLabels
key_rank(v) == CHOOSE k \in 1..Len(SortedTexts) : SortedTexts[k] = v

\* the n positions put in the order Precedes, a strict total order on them
in_order(n, Precedes(_, _)) ==
    [k \in 1..n |-> CHOOSE i \in 1..n : Cardinality({j \in 1..n : Precedes(j, i)}) = k - 1]

\* the keys of a column, sorted
group_keys(frame, col) ==
    LET keyset == {frame.rows[i][col] : i \in 1..Len(frame.rows)} IN
    [k \in 1..Cardinality(keyset) |->
        CHOOSE v \in keyset :
            Cardinality({w \in keyset : key_rank(w) < key_rank(v)}) = k - 1]

RECURSIVE sum_where(_, _, _, _)
sum_where(rows_left, key_col, key, value_col) ==
    IF rows_left = <<>> THEN 0
    ELSE (IF Head(rows_left)[key_col] = key THEN Head(rows_left)[value_col] ELSE 0)
         + sum_where(Tail(rows_left), key_col, key, value_col)

count_where(frame, col, key) ==
    Cardinality({i \in 1..Len(frame.rows) : frame.rows[i][col] = key})

\* data.groupby(key_col)[value_col].mean().reset_index()
groupby_mean(frame, key_col, value_col) ==
    LET keys == group_keys(frame, key_col) IN
    [k \in 1..Len(keys) |->
        [key |-> keys[k],
         mean |-> <<sum_where(frame.rows, key_col, keys[k], value_col),
                    count_where(frame, key_col, keys[k])>>]]

greater(m1, m2) == m1[1] * m2[2] > m2[1] * m1[2]

\* sort_values(numeric_col, ascending=False); equal means keep the group order
sort_values_descending(groups) ==
    LET order == in_order(Len(groups),
                         LAMBDA j, i : \/ greater(groups[j].mean, groups[i].mean)
                                       \/ /\ ~greater(groups[i].mean, groups[j].mean)
                                          /\ j < i)
    IN [k \in 1..Len(groups) |-> groups[order[k]]]

\* data[cat_col].value_counts(): the values by falling count; equal counts are
\* in the order of first appearance
value_counts(frame, col) ==
    LET keys == group_keys(frame, col)
        first_row(v) == CHOOSE i \in 1..Len(frame.rows) :
                            /\ frame.rows[i][col] = v
                            /\ \A j \in 1..(i - 1) : frame.rows[j][col] # v
        order == in_order(Len(keys),
                         LAMBDA j, i :
                            \/ count_where(frame, col, keys[j]) > count_where(frame, col, keys[i])
                            \/ /\ count_where(frame, col, keys[j]) = count_where(frame, col, keys[i])
                               /\ first_row(keys[j]) < first_row(keys[i]))
    IN [k \in 1..Len(keys) |->
            [key |-> keys[order[k]], count |-> count_where(frame, col, keys[order[k]])]]

chart_data(type, title, labels, label, values) ==
    [type |-> type, title |-> title, labels |-> labels,
     datasets |-> <<[label |-> label, data |-> values]>>]

date_words == << <<"D", "A", "T", "E">>, <<"T", "I", "M", "E">>, <<"W", "E", "E", "K">>, <<"M", "O", "N", "T", "H">>, <<"D", "A", "Y">> >>

\* _generate_trend_charts: the line chart of one metric, if any
trend_chart(frame, date_col, numeric_col) ==
    IF date_col = numeric_col THEN <<>>
    ELSE LET trend_data == groupby_mean(frame, date_col, numeric_col) IN
         IF Len(trend_data) >= 2
         THEN << chart_data("line", frame.columns[numeric_col].name \o <<" ", "T", "r", "e", "n", "d", " ", "O", "v", "e", "r", " ", "T", "i", "m", "e">>,
                            [k \in 1..Len(trend_data) |-> trend_data[k].key],
                            frame.columns[numeric_col].name,
                            [k \in 1..Len(trend_data) |-> trend_data[k].mean]) >>
         ELSE <<>>

_generate_trend_charts(frame, numeric_cols, categorical_cols) ==
    LET date_columns ==
            SelectSeq([i \in 1..Len(frame.columns) |-> i],
                      LAMBDA i : \E w \in 1..Len(date_words) :
                                    contains(upper(frame.columns[i].name), date_words[w]))
    IN IF date_columns # <<>> /\ numeric_cols # <<>>
       THEN trend_chart(frame, date_columns[1], numeric_cols[1])
            \o (IF Len(numeric_cols) >= 2
                THEN trend_chart(frame, date_columns[1], numeric_cols[2]) ELSE <<>>)
       ELSE <<>>

\* _generate_comparison_charts: the bar chart of one metric, if any
comparison_chart(frame, cat_col, numeric_col) ==
    LET comparison_data ==
            head(sort_values_descending(groupby_mean(frame, cat_col, numeric_col)), 10) IN
    IF Len(comparison_data) >= 2
    THEN << chart_data("bar",
                       frame.columns[numeric_col].name \o <<" ", "b", "y", " ">> \o frame.columns[cat_col].name,
                       [k \in 1..Len(comparison_data) |-> comparison_data[k].key],
                       frame.columns[numeric_col].name,
                       [k \in 1..Len(comparison_data) |-> comparison_data[k].mean]) >>
    ELSE <<>>

_generate_comparison_charts(frame, numeric_cols, categorical_cols) ==
    IF categorical_cols # <<>> /\ numeric_cols # <<>>
    THEN comparison_chart(frame, categorical_cols[1], numeric_cols[1])
         \o (IF Len(numeric_cols) >= 2
             THEN comparison_chart(frame, categorical_cols[1], numeric_cols[2]) ELSE <<>>)
    ELSE <<>>

\* a faulty variant: a doughnut is emitted for a single category too
enough_categories_one(distribution_data) == Len(distribution_data) >= 1

\* _generate_distribution_charts: `if len(distribution_data) >= 2'
enough_categories(distribution_data) == Len(distribution_data) >= 2

_generate_distribution_charts(frame, numeric_cols, categorical_cols) ==
    IF categorical_cols # <<>> /\ Len(frame.rows) <= 20
    THEN LET distribution_data == head(value_counts(frame, categorical_cols[1]), 8) IN
         IF enough_categories(distribution_data)
         THEN << chart_data("doughnut",
                            <<"D", "i", "s", "t", "r", "i", "b", "u", "t", "i", "o", "n", " ", "b", "y", " ">> \o frame.columns[categorical_cols[1]].name,
                            [k \in 1..Len(distribution_data) |-> distribution_data[k].key],
                            <<"C", "o", "u", "n", "t">>,
                            [k \in 1..Len(distribution_data) |-> distribution_data[k].count]) >>
         ELSE <<>>
    ELSE <<>>

\* a faulty variant: the list is not cut
first_charts_all(list) == list

\* charts[:3]
first_charts(list) == head(list, MaxCharts)

\* generate_charts_from_data, for the frame it works on; frame.raises says that an
\* exception leaves the body of the try, which the except branch answers with []
\* (the query and the insights it is given are not used)
generate_charts_from_data(frame) ==
    IF frame.rows = <<>> THEN <<>>
    ELSE IF frame.raises THEN <<>>
    ELSE LET numeric_columns == select_dtypes(frame, {"int64", "float64"})
             categorical_columns == select_dtypes(frame, {"object"})
         IN first_charts(
                _generate_trend_charts(frame, numeric_columns, categorical_columns)
                \o _generate_comparison_charts(frame, numeric_columns, categorical_columns)
                \o _generate_distribution_charts(frame, numeric_columns, categorical_columns))

ChartsInit ==
    /\ data_sample = None
    /\ charts = None

\* the chart step hands the frame of the result to generate_charts_from_data
FrameGiven ==
    /\ data_sample = None
    /\ \E frame \in RegionCountFrames \cup TrendFrames, raises \in BOOLEAN :
        data_sample' = Some([columns |-> frame.columns, rows |-> head(frame.rows, 50),
                             raises |-> raises])
    /\ UNCHANGED <<charts, samplerVars, cleanVars, loopVars, parseVars, insightVars, threadVars, loginVars, sqlVars, gwVars, pipeVars>>

\* the three generators, and the cut to three charts
Synthesize ==
    /\ data_sample # None
    /\ charts = None
    /\ charts' = Some(generate_charts_from_data(data_sample[1]))
    /\ UNCHANGED <<data_sample, samplerVars, cleanVars, loopVars, parseVars, insightVars, threadVars, loginVars, sqlVars, gwVars, pipeVars>>

\* the charts went into the result
ChartsReturned ==
    /\ charts # None
    /\ data_sample' = None
    /\ charts' = None
    /\ UNCHANGED <<samplerVars, cleanVars, loopVars, parseVars, insightVars, threadVars, loginVars, sqlVars, gwVars, pipeVars>>

ChartsNext == FrameGiven \/ Synthesize \/ ChartsReturned

(***************************************************************************)
(* Concurrent requests.  The endpoints are coroutines of one event loop;   *)
(* the gateway's operations are plain functions that the coroutines call.  *)
(* The loop runs one coroutine at a time and takes it back only where the  *)
(* coroutine awaits.                                                       *)
(***************************************************************************)
MaxRequests == 2
Requests == 1..MaxRequests

\* the steps of chat_with_bot and process_natural_language_query that await
\* or call the gateway, in program order
handler ==
    << [kind |-> "await", what |-> "increment_usage"],
       [kind |-> "gateway", what |-> "get_available_tables"],
       [kind |-> "gateway", what |-> "get_table_schema"],
       [kind |-> "await", what |-> "generate_response_with_assistant"],
       [kind |-> "gateway", what |-> "execute_query"],
       [kind |-> "await", what |-> "_generate_insights_from_data"],
       [kind |-> "return", what |-> "ChatResponse"] >>

\* the statements a gateway operation sends, one cursor each: a probe per
\* candidate table, the DESCRIBE and the fallback sample, the statement
statements_of(what) ==
    CASE what = "get_available_tables" -> Len(allowed_tables)
      [] what = "get_table_schema" -> 2
      [] OTHER -> 1

\* a faulty variant: a gateway operation gives the loop back while it runs
yields_always(kind) == kind \in {"await", "gateway"}

\* whether the coroutine gives the loop back at a step of this kind
yields(kind) == kind = "await"

LoopInit ==
    /\ running = 0
    /\ step = [r \in Requests |-> 1]
    /\ statements_done = [r \in Requests |-> 0]
    /\ cursor_open = [r \in Requests |-> FALSE]

\* the loop resumes a coroutine: its request arrived, or what it awaited is there
Resume(r) ==
    /\ running = 0
    /\ running' = r
    /\ UNCHANGED <<step, statements_done, cursor_open>>
    /\ UNCHANGED <<samplerVars, cleanVars, chartVars, parseVars, insightVars, threadVars, loginVars, sqlVars, gwVars, pipeVars>>

\* the running coroutine gives the loop back; past an await when resumed
Suspend(r) ==
    /\ running = r
    /\ yields(handler[step[r]].kind)
    /\ running' = 0
    /\ step' = IF handler[step[r]].kind = "await" THEN [step EXCEPT ![r] = @ + 1] ELSE step
    /\ UNCHANGED <<statements_done, cursor_open>>
    /\ UNCHANGED <<samplerVars, cleanVars, chartVars, parseVars, insightVars, threadVars, loginVars, sqlVars, gwVars, pipeVars>>

\* cursor = self.connection.cursor(); cursor.execute(...)
CursorExecute(r) ==
    /\ running = r
    /\ handler[step[r]].kind = "gateway"
    /\ ~cursor_open[r]
    /\ cursor_open' = [cursor_open EXCEPT ![r] = TRUE]
    /\ UNCHANGED <<running, step, statements_done>>
    /\ UNCHANGED <<samplerVars, cleanVars, chartVars, parseVars, insightVars, threadVars, loginVars, sqlVars, gwVars, pipeVars>>

\* cursor.fetchall(); cursor.close(); after its last statement the operation returns
CursorClose(r) ==
    /\ running = r
    /\ cursor_open[r]
    /\ cursor_open' = [cursor_open EXCEPT ![r] = FALSE]
    /\ IF statements_done[r] + 1 = statements_of(handler[step[r]].what)
       THEN /\ statements_done' = [statements_done EXCEPT ![r] = 0]
            /\ step' = [step EXCEPT ![r] = @ + 1]
       ELSE /\ statements_done' = [statements_done EXCEPT ![r] = @ + 1]
            /\ UNCHANGED step
    /\ UNCHANGED running
    /\ UNCHANGED <<samplerVars, cleanVars, chartVars, parseVars, insightVars, threadVars, loginVars, sqlVars, gwVars, pipeVars>>

\* the handler returns its response; the next request of this client starts over
Respond(r) ==
    /\ running = r
    /\ handler[step[r]].kind = "return"
    /\ running' = 0
    /\ step' = [step EXCEPT ![r] = 1]
    /\ UNCHANGED <<statements_done, cursor_open>>
    /\ UNCHANGED <<samplerVars, cleanVars, chartVars, parseVars, insightVars, threadVars, loginVars, sqlVars, gwVars, pipeVars>>

LoopNext ==
    \E r \in Requests :
        \/ Resume(r)
        \/ Suspend(r)
        \/ CursorExecute(r)
        \/ CursorClose(r)
        \/ Respond(r)
(***************************************************************************)
(* BIService.process_natural_language_query.                               *)
(***************************************************************************)
\* str.lower()
lower_char(c) ==
    IF InSeq(c, UpperCase)
    THEN LowerCase[CHOOSE i \in 1..Len(UpperCase) : UpperCase[i] = c]
    ELSE c

lower(s) == [i \in 1..Len(s) |-> lower_char(s[i])]

chart_keywords ==
    << <<"t", "r", "e", "n", "d">>, <<"t", "r", "e", "n", "d", "s">>, <<"t", "r", "e", "n", "d", "i", "n", "g">>, <<"o", "v", "e", "r", " ", "t", "i", "m", "e">>, <<"t", "i", "m", "e", "l", "i", "n", "e">>,
       <<"c", "o", "m", "p", "a", "r", "e">>, <<"c", "o", "m", "p", "a", "r", "i", "s", "o", "n">>, <<"v", "e", "r", "s", "u", "s">>, <<"v", "s">>, <<"a", "g", "a", "i", "n", "s", "t">>,
       <<"t", "o", "p">>, <<"b", "o", "t", "t", "o", "m">>, <<"h", "i", "g", "h", "e", "s", "t">>, <<"l", "o", "w", "e", "s", "t">>, <<"b", "e", "s", "t">>, <<"w", "o", "r", "s", "t">>,
       <<"d", "i", "s", "t", "r", "i", "b", "u", "t", "i", "o", "n">>, <<"b", "r", "e", "a", "k", "d", "o", "w", "n">>, <<"s", "p", "l", "i", "t">>, <<"b", "y">>,
       <<"c", "h", "a", "r", "t">>, <<"g", "r", "a", "p", "h">>, <<"p", "l", "o", "t">>, <<"v", "i", "s", "u", "a", "l", "i", "z", "e">>, <<"s", "h", "o", "w">>,
       <<"p", "e", "r", "f", "o", "r", "m", "a", "n", "c", "e">>, <<"p", "r", "o", "d", "u", "c", "t", "i", "v", "i", "t", "y">>, <<"e", "f", "f", "i", "c", "i", "e", "n", "c", "y">>,
       <<"w", "e", "e", "k", "l", "y">>, <<"m", "o", "n", "t", "h", "l", "y">>, <<"d", "a", "i", "l", "y">>, <<"q", "u", "a", "r", "t", "e", "r", "l", "y">>,
       <<"g", "r", "o", "w", "t", "h">>, <<"d", "e", "c", "l", "i", "n", "e">>, <<"i", "n", "c", "r", "e", "a", "s", "e">>, <<"d", "e", "c", "r", "e", "a", "s", "e">> >>

\* a DataFrame, as far as the chart decision reads it: len(data), len(data.columns),
\* and whether a column is numeric
Frame(n, shape) == [rows |-> n, columns |-> shape.columns, numeric |-> shape.numeric]

should_generate_charts(text, data) ==
    IF data.rows < 2 THEN FALSE
    ELSE LET query_lower == lower(text)
             has_chart_keywords ==
                 \E k \in 1..Len(chart_keywords) : contains(query_lower, chart_keywords[k])
             has_numeric_data == data.numeric
             has_groupable_data == data.columns >= 2
         IN has_chart_keywords /\ has_numeric_data /\ has_groupable_data


\* the texts users send
UserTexts ==
    { <<"s", "h", "o", "w", " ", "b", "r", "e", "a", "k", "d", "o", "w", "n", " ", "b", "y", " ", "r", "e", "g", "i", "o", "n">>, <<"h", "o", "w", " ", "m", "a", "n", "y", " ", "t", "i", "c", "k", "e", "t", "s", " ", "w", "e", "r", "e", " ", "s", "o", "l", "v", "e", "d">>,
      <<"p", "l", "e", "a", "s", "e", " ", "w", "r", "i", "t", "e", " ", "a", " ", "f", "u", "n", "c", "t", "i", "o", "n", " ", "f", "o", "r", " ", "s", "o", "r", "t", "i", "n", "g">>, <<"w", "e", "a", "t", "h", "e", "r", " ", "n", "e", "w", "s">> }

\* the statements the assistant proposes
AssistantQueries ==
    {Scenario_NoLimit, Scenario_UpdatedAt, Scenario_DropFirst, Scenario_DropLast}

ResultShapes == {[columns |-> 2, numeric |-> TRUE], [columns |-> 1, numeric |-> FALSE]}

\* the JSON objects the assistant answers with: the requested shape, the same with
\* result fields of its own, and an object without a statement
RequestedObject(q) ==
    [sql_query |-> q, explanation |-> "explanation", business_context |-> "context",
     expected_insights |-> <<"expected">>]

ObjectWithResults(q) ==
    [sql_query |-> q, explanation |-> "explanation", business_context |-> "context",
     expected_insights |-> <<"expected">>,
     data |-> Frame(2, [columns |-> 2, numeric |-> TRUE]), row_count |-> 2, success |-> TRUE]

ObjectWithoutQuery ==
    [explanation |-> "explanation",
     data |-> Frame(2, [columns |-> 2, numeric |-> TRUE]), row_count |-> 2, success |-> TRUE]

\* the completions: form is how the content reads, sql the statement in a fenced
\* block or on a line of its own, object what json.loads makes of the content
Completion(form, sql, object) == [form |-> form, sql |-> sql, object |-> object]

Completions ==
    {Completion("json", <<>>, RequestedObject(q)) : q \in AssistantQueries}
    \cup {Completion("json", <<>>, ObjectWithResults(q)) : q \in AssistantQueries}
    \cup {Completion("json", <<>>, [explanation |-> "explanation"]),
          Completion("json", <<>>, ObjectWithoutQuery),
          Completion("broken json", <<>>, <<>>),
          Completion("prose", <<>>, <<>>)}
    \cup {Completion("fenced", q, <<>>) : q \in AssistantQueries}
    \cup {Completion("line", q, <<>>) : q \in AssistantQueries}

\* _parse_ai_response: json.loads of a content that starts with '{' (its failure
\* is the except branch), else the first ```sql block, else the first line that
\* starts with SELECT or WITH
_parse_ai_response(response) ==
    IF response.form = "json" THEN response.object
    ELSE IF response.form = "broken json"
    THEN [explanation |-> "response", business_context |-> "Analysis requested by user",
          expected_insights |-> <<>>]
    ELSE [sql_query |-> response.sql, explanation |-> "response",
          business_context |-> "Analysis requested by user", expected_insights |-> <<>>]

\* dict.get(key) is truthy, for a key that holds a text
has_text(d, key) == key \in DOMAIN d /\ d[key] # <<>>

\* dict.get("data") is truthy and len(data) > 0
has_data(d) == "data" \in DOMAIN d /\ d["data"].rows > 0

\* _execute_and_analyze_query: the dict it returns, with what it did on the way
_execute_and_analyze_query(sql_query, avail, ok, shape, insights) ==
    IF ~validate_query(sql_query)
    THEN [dict |-> [error |-> "Query contains forbidden operations", success |-> FALSE],
          verdict |-> "rejected", sent |-> <<>>, rows |-> -1, insight_requests |-> 0]
    ELSE IF ~ok
    THEN [dict |-> [error |-> "warehouse error", success |-> FALSE],
          verdict |-> "passed", sent |-> execute_query_text(sql_query), rows |-> -1,
          insight_requests |-> 0]
    ELSE LET n == fetchall_len(execute_query_text(sql_query), avail) IN
         [dict |-> [data |-> Frame(n, shape), row_count |-> n, columns |-> shape.columns,
                    insights |-> insights, success |-> TRUE],
          verdict |-> "passed", sent |-> execute_query_text(sql_query), rows |-> n,
          insight_requests |-> 1]

\* what _generate_insights_from_data returns: the parsed list or its fallback
InsightLists == {<<"insight">>, <<"Unable to generate insights from the data">>}

priority_tables ==
    << "RPT_AGENT_SCHEDULE_ADHERENCE", "RPT_WOPS_AGENT_PERFORMANCE", "RPT_AGENT_METRICS",
       "RPT_SCHEDULE_DATA" >>

InList(x, l) == \E i \in 1..Len(l) : l[i] = x

RECURSIVE add_remaining(_, _)
add_remaining(ordered, tables) ==
    IF tables = <<>> THEN ordered
    ELSE IF ~InList(Head(tables), ordered) /\ Len(ordered) < 5
         THEN add_remaining(Append(ordered, Head(tables)), Tail(tables))
         ELSE add_remaining(ordered, Tail(tables))

\* _get_dynamic_schema_context: the tables whose schema goes into the prompt
ordered_tables(tables) ==
    add_remaining(SelectSeq(priority_tables, LAMBDA t : InList(t, tables)), tables)

\* the DESCRIBE rows of a table while a request is served
catalog(table) ==
    IF table = "RPT_AGENT_SCHEDULE_ADHERENCE" THEN AdherenceRows ELSE PerformanceRows

\* which statements about a table can fail while requests are served
SchemaOutcomes(table) == IF table \in FlakyTables THEN BOOLEAN ELSE {TRUE}

\* the number of rows the assistant's statement matches
ResultSizes == {0, 250}


(***************************************************************************)
(* The prompt's schema section and the domain filter.                      *)
(***************************************************************************)
\* the characters of a column name or declared type of the catalog
catalog_text(word) ==
    CASE word = "SOLVED_WEEK" -> <<"S", "O", "L", "V", "E", "D", "_", "W", "E", "E", "K">>
      [] word = "AHT_MINUTES" -> <<"A", "H", "T", "_", "M", "I", "N", "U", "T", "E", "S">>
      [] word = "AGENT_NAME" -> <<"A", "G", "E", "N", "T", "_", "N", "A", "M", "E">>
      [] word = "ADHERENCE_PERCENTAGE" -> <<"A", "D", "H", "E", "R", "E", "N", "C", "E", "_", "P", "E", "R", "C", "E", "N", "T", "A", "G", "E">>
      [] word = "LOADED" -> <<"L", "O", "A", "D", "E", "D">>
      [] word = "DATE" -> <<"D", "A", "T", "E">>
      [] word = "NUMBER(38,2)" -> <<"N", "U", "M", "B", "E", "R", "(", "3", "8", ",", "2", ")">>
      [] word = "VARCHAR(255)" -> <<"V", "A", "R", "C", "H", "A", "R", "(", "2", "5", "5", ")">>
      [] word = "VARCHAR(16)" -> <<"V", "A", "R", "C", "H", "A", "R", "(", "1", "6", ")">>
      [] word = "TIMESTAMP_NTZ(9)" -> <<"T", "I", "M", "E", "S", "T", "A", "M", "P", "_", "N", "T", "Z", "(", "9", ")">>
      [] OTHER -> <<"V", "A", "R", "C", "H", "A", "R">>

\* ', '.join(parts)
RECURSIVE join(_, _)
join(sep, parts) ==
    IF parts = <<>> THEN <<>>
    ELSE IF Len(parts) = 1 THEN parts[1]
    ELSE parts[1] \o sep \o join(sep, Tail(parts))

\* _get_dynamic_schema_context: the note a column gets
column_note(col_name) ==
    IF contains(upper(col_name), <<"A", "D", "H", "E", "R", "E", "N", "C", "E", "_", "P", "E", "R", "C", "E", "N", "T", "A", "G", "E">>)
    THEN <<" ", "-", " ", "u", "s", "e", " ", "T", "R", "Y", "_", "T", "O", "_", "N", "U", "M", "B", "E", "R", "(", ")", " ", "-", " ", "m", "a", "y", " ", "c", "o", "n", "t", "a", "i", "n", " ", "'", "-", "'">>
    ELSE IF contains(upper(col_name), <<"D", "A", "T", "E">>) THEN <<" ", "-", " ", "d", "a", "t", "e", " ", "c", "o", "l", "u", "m", "n">>
    ELSE IF contains(upper(col_name), <<"S", "U", "P", "E", "R", "V", "I", "S", "O", "R">>) THEN <<" ", "-", " ", "f", "o", "r", " ", "f", "i", "l", "t", "e", "r", "i", "n", "g", " ", "b", "y", " ", "s", "u", "p", "e", "r", "v", "i", "s", "o", "r">>
    ELSE IF upper(col_name) \in {<<"A", "G", "E", "N", "T", "_", "N", "A", "M", "E">>, <<"A", "S", "S", "I", "G", "N", "E", "E", "_", "N", "A", "M", "E">>} THEN <<" ", "-", " ", "f", "o", "r", " ", "j", "o", "i", "n", "i", "n", "g", " ", "t", "a", "b", "l", "e", "s">>
    ELSE <<>>

\* _get_dynamic_schema_context: col_desc
col_desc(col) ==
    catalog_text(col.name) \o <<" ", "(">> \o catalog_text(col.type) \o <<")">>
    \o column_note(catalog_text(col.name))

\* _get_dynamic_schema_context: the line of a table whose schema is not empty
table_context(table, table_schema) ==
    <<"-", " ">> \o table_text(table) \o <<":", " ">>
    \o join(<<",", " ">>, [i \in 1..Len(table_schema) |-> col_desc(table_schema[i])])

join_info ==
    <<"\n", "\n", "K", "E", "Y", " ", "R", "E", "L", "A", "T", "I", "O", "N", "S", "H", "I", "P", "S", ":", "\n", "-", " ", "J", "o", "i", "n", " ", "t", "a", "b", "l", "e", "s", " ", "u", "s", "i", "n", "g", ":", " ", "R", "P", "T", "_", "A", "G", "E", "N", "T", "_", "S", "C", "H", "E", "D", "U", "L", "E", "_", "A", "D", "H", "E", "R", "E", "N", "C", "E", ".", "A", "G", "E", "N", "T", "_", "N", "A", "M", "E", " ", "=", " ", "R", "P", "T", "_", "W", "O", "P", "S", "_", "A", "G", "E", "N", "T", "_", "P", "E", "R", "F", "O", "R", "M", "A", "N", "C", "E", ".", "A", "S", "S", "I", "G", "N", "E", "E", "_", "N", "A", "M", "E", "\n", "-", " ", "F", "i", "l", "t", "e", "r", " ", "b", "y", " ", "s", "u", "p", "e", "r", "v", "i", "s", "o", "r", ":", " ", "U", "s", "e", " ", "A", "S", "S", "I", "G", "N", "E", "E", "_", "S", "U", "P", "E", "R", "V", "I", "S", "O", "R", " ", "c", "o", "l", "u", "m", "n", " ", "i", "n", " ", "R", "P", "T", "_", "W", "O", "P", "S", "_", "A", "G", "E", "N", "T", "_", "P", "E", "R", "F", "O", "R", "M", "A", "N", "C", "E", " ", "(", "n", "o", " ", "J", "O", "I", "N", " ", "n", "e", "e", "d", "e", "d", ")", "\n", "-", " ", "F", "o", "r", " ", "d", "a", "t", "e", " ", "f", "i", "l", "t", "e", "r", "i", "n", "g", ":", " ", "U", "s", "e", " ", "a", "p", "p", "r", "o", "p", "r", "i", "a", "t", "e", " ", "d", "a", "t", "e", " ", "c", "o", "l", "u", "m", "n", "s", " ", "(", "A", "D", "H", "E", "R", "E", "N", "C", "E", "_", "D", "A", "T", "E", ",", " ", "S", "O", "L", "V", "E", "D", "_", "W", "E", "E", "K", ",", " ", "e", "t", "c", ".", ")", "\n", "\n", "C", "R", "I", "T", "I", "C", "A", "L", " ", "S", "E", "A", "R", "C", "H", " ", "R", "U", "L", "E", "S", ":", "\n", "-", " ", "A", "L", "W", "A", "Y", "S", " ", "u", "s", "e", " ", "L", "I", "K", "E", " ", "o", "r", " ", "I", "L", "I", "K", "E", " ", "f", "o", "r", " ", "n", "a", "m", "e", " ", "s", "e", "a", "r", "c", "h", "e", "s", ",", " ", "N", "E", "V", "E", "R", " ", "e", "x", "a", "c", "t", " ", "e", "q", "u", "a", "l", "s", " ", "(", "=", ")", "\n", "-", " ", "F", "o", "r", " ", "a", "g", "e", "n", "t", " ", "n", "a", "m", "e", "s", ":", " ", "W", "H", "E", "R", "E", " ", "A", "G", "E", "N", "T", "_", "N", "A", "M", "E", " ", "I", "L", "I", "K", "E", " ", "'", "%", "J", "o", "h", "n", "%", "'", " ", "(", "n", "o", "t", " ", "W", "H", "E", "R", "E", " ", "A", "G", "E", "N", "T", "_", "N", "A", "M", "E", " ", "=", " ", "'", "J", "o", "h", "n", "'", ")", "\n", "-", " ", "F", "o", "r", " ", "s", "u", "p", "e", "r", "v", "i", "s", "o", "r", "s", ":", " ", "W", "H", "E", "R", "E", " ", "A", "S", "S", "I", "G", "N", "E", "E", "_", "S", "U", "P", "E", "R", "V", "I", "S", "O", "R", " ", "I", "L", "I", "K", "E", " ", "'", "%", "K", "i", "m", "%", "'", " ", "(", "n", "o", "t", " ", "W", "H", "E", "R", "E", " ", "A", "S", "S", "I", "G", "N", "E", "E", "_", "S", "U", "P", "E", "R", "V", "I", "S", "O", "R", " ", "=", " ", "'", "K", "i", "m", "'", ")", "\n", "-", " ", "U", "s", "e", " ", "%", " ", "w", "i", "l", "d", "c", "a", "r", "d", "s", " ", "b", "e", "f", "o", "r", "e", " ", "a", "n", "d", " ", "a", "f", "t", "e", "r", " ", "s", "e", "a", "r", "c", "h", " ", "t", "e", "r", "m", "s", " ", "t", "o", " ", "c", "a", "t", "c", "h", " ", "p", "a", "r", "t", "i", "a", "l", " ", "m", "a", "t", "c", "h", "e", "s", "\n", "-", " ", "I", "L", "I", "K", "E", " ", "i", "s", " ", "c", "a", "s", "e", "-", "i", "n", "s", "e", "n", "s", "i", "t", "i", "v", "e", ",", " ", "L", "I", "K", "E", " ", "i", "s", " ", "c", "a", "s", "e", "-", "s", "e", "n", "s", "i", "t", "i", "v", "e", " ", "-", " ", "p", "r", "e", "f", "e", "r", " ", "I", "L", "I", "K", "E", " ", "f", "o", "r", " ", "n", "a", "m", "e", "s", "\n", "\n", "I", "M", "P", "O", "R", "T", "A", "N", "T", " ", "N", "O", "T", "E", "S", ":", "\n", "-", " ", "A", "D", "H", "E", "R", "E", "N", "C", "E", "_", "P", "E", "R", "C", "E", "N", "T", "A", "G", "E", " ", "m", "a", "y", " ", "c", "o", "n", "t", "a", "i", "n", " ", "'", "-", "'", " ", "o", "r", " ", "t", "e", "x", "t", ",", " ", "a", "l", "w", "a", "y", "s", " ", "u", "s", "e", " ", "T", "R", "Y", "_", "T", "O", "_", "N", "U", "M", "B", "E", "R", "(", ")", " ", "f", "o", "r", " ", "n", "u", "m", "e", "r", "i", "c", " ", "o", "p", "e", "r", "a", "t", "i", "o", "n", "s", "\n", "-", " ", "W", "h", "e", "n", " ", "f", "i", "l", "t", "e", "r", "i", "n", "g", " ", "b", "y", " ", "s", "u", "p", "e", "r", "v", "i", "s", "o", "r", ",", " ", "u", "s", "e", " ", "A", "S", "S", "I", "G", "N", "E", "E", "_", "S", "U", "P", "E", "R", "V", "I", "S", "O", "R", " ", "d", "i", "r", "e", "c", "t", "l", "y", " ", "-", " ", "n", "o", " ", "J", "O", "I", "N", " ", "r", "e", "q", "u", "i", "r", "e", "d", "\n", "-", " ", "A", "l", "l", " ", "d", "a", "t", "e", " ", "c", "o", "l", "u", "m", "n", "s", " ", "s", "h", "o", "u", "l", "d", " ", "b", "e", " ", "f", "i", "l", "t", "e", "r", "e", "d", " ", "a", "p", "p", "r", "o", "p", "r", "i", "a", "t", "e", "l", "y", " ", "f", "o", "r", " ", "t", "i", "m", "e", "-", "b", "a", "s", "e", "d", " ", "a", "n", "a", "l", "y", "s", "i", "s", "\n", "-", " ", "N", "a", "m", "e", "s", " ", "i", "n", " ", "d", "a", "t", "a", "b", "a", "s", "e", " ", "m", "a", "y", " ", "b", "e", " ", "f", "u", "l", "l", " ", "n", "a", "m", "e", "s", " ", "w", "h", "i", "l", "e", " ", "u", "s", "e", "r", "s", " ", "p", "r", "o", "v", "i", "d", "e", " ", "n", "i", "c", "k", "n", "a", "m", "e", "s", "/", "s", "h", "o", "r", "t", " ", "n", "a", "m", "e", "s">>

\* process_natural_language_query: the message it hands to the assistant, when
\* no Confluence, file or caller context is added
enhanced_query(text, lines) ==
    text \o <<"\n", "\n", "D", "A", "T", "A", "B", "A", "S", "E", " ", "S", "C", "H", "E", "M", "A", " ", "I", "N", "F", "O", "R", "M", "A", "T", "I", "O", "N", ":", "\n">> \o join(<<"\n">>, lines) \o join_info

basic_greetings ==
    << <<"h", "i">>, <<"h", "e", "l", "l", "o">>, <<"h", "e", "y">>, <<"g", "o", "o", "d", " ", "m", "o", "r", "n", "i", "n", "g">>, <<"g", "o", "o", "d", " ", "a", "f", "t", "e", "r", "n", "o", "o", "n">>, <<"g", "o", "o", "d", " ", "e", "v", "e", "n", "i", "n", "g">>,
       <<"t", "h", "a", "n", "k", "s">>, <<"t", "h", "a", "n", "k", " ", "y", "o", "u">>, <<"b", "y", "e">>, <<"g", "o", "o", "d", "b", "y", "e">>, <<"o", "k">>, <<"o", "k", "a", "y">>, <<"y", "e", "s">>, <<"n", "o">> >>

forbidden_patterns ==
    << <<"w", "r", "i", "t", "e", " ", "a", " ", "f", "u", "n", "c", "t", "i", "o", "n">>, <<"c", "r", "e", "a", "t", "e", " ", "a", " ", "s", "c", "r", "i", "p", "t">>, <<"p", "y", "t", "h", "o", "n", " ", "c", "o", "d", "e">>, <<"j", "a", "v", "a", "s", "c", "r", "i", "p", "t", " ", "c", "o", "d", "e">>,
       <<"p", "r", "o", "g", "r", "a", "m", "m", "i", "n", "g">>, <<"m", "a", "c", "h", "i", "n", "e", " ", "l", "e", "a", "r", "n", "i", "n", "g">>, <<"a", "i", " ", "m", "o", "d", "e", "l">>, <<"d", "e", "e", "p", " ", "l", "e", "a", "r", "n", "i", "n", "g">>,
       <<"r", "e", "c", "i", "p", "e">>, <<"c", "o", "o", "k", "i", "n", "g">>, <<"w", "e", "a", "t", "h", "e", "r">>, <<"n", "e", "w", "s">>, <<"m", "o", "v", "i", "e">>, <<"b", "o", "o", "k">>, <<"t", "r", "a", "v", "e", "l">>,
       <<"h", "e", "a", "l", "t", "h", " ", "a", "d", "v", "i", "c", "e">>, <<"m", "e", "d", "i", "c", "a", "l", " ", "a", "d", "v", "i", "c", "e">>, <<"l", "e", "g", "a", "l", " ", "a", "d", "v", "i", "c", "e">>, <<"p", "e", "r", "s", "o", "n", "a", "l", " ", "a", "d", "v", "i", "c", "e">>,
       <<"r", "e", "l", "a", "t", "i", "o", "n", "s", "h", "i", "p">>, <<"e", "n", "t", "e", "r", "t", "a", "i", "n", "m", "e", "n", "t">>, <<"g", "a", "m", "e">>, <<"s", "p", "o", "r", "t">>, <<"p", "o", "l", "i", "t", "i", "c", "s">>,
       <<"w", "r", "i", "t", "e", " ", "m", "e", " ", "a">>, <<"c", "r", "e", "a", "t", "e", " ", "m", "e", " ", "a">>, <<"b", "u", "i", "l", "d", " ", "m", "e", " ", "a">>, <<"d", "e", "v", "e", "l", "o", "p", " ", "a">> >>

\* len(s.split()): the runs of characters that are not white space
word_count(s) ==
    Cardinality({i \in 1..Len(s) : ~isspace(s[i]) /\ (i = 1 \/ isspace(s[i - 1]))})

\* _check_domain_relevance(user_message)["is_relevant"]
_check_domain_relevance(user_message) ==
    LET message_lower == strip(lower(user_message)) IN
    IF \E k \in 1..Len(basic_greetings) : contains(message_lower, basic_greetings[k])
    THEN TRUE
    ELSE IF word_count(message_lower) <= 3 THEN TRUE
    ELSE IF \E k \in 1..Len(forbidden_patterns) : contains(message_lower, forbidden_patterns[k])
    THEN FALSE
    ELSE TRUE

(***************************************************************************)
(* The wait for the assistant run.                                         *)
(***************************************************************************)
timeout_seconds == 45

\* the statuses that keep the loop waiting, and the ones that end it
WaitingStatuses == {"queued", "in_progress", "cancelling"}
FinalStatuses == {"completed", "failed", "expired"}

\* seconds one turn of the loop takes, asyncio.sleep(1) and the retrieve call
\* together: a quick turn and a slow one
TurnSeconds == {15, 31}

\* a faulty variant: a failure is reported as a success
error_result_as_success(message) == [error |-> message, success |-> TRUE]

\* the dict the outer except of process_natural_language_query returns
error_result(message) == [error |-> message, success |-> FALSE]

NoCalls ==
    [validations |-> 0, statements |-> 0, insight_requests |-> 0, chart_syntheses |-> 0,
     filter |-> "none", threads |-> 0, thread_messages |-> 0, runs |-> 0, exit |-> "none"]

PipeInit ==
    /\ ppc = "idle"
    /\ user_query = <<>>
    /\ todo = <<>>
    /\ ai_response = Completion("none", <<>>, <<>>)
    /\ result = <<>>
    /\ calls = NoCalls
    /\ schema_info = <<>>
    /\ run_status = "none"
    /\ elapsed = 0

\* POST /chat hands the message to process_natural_language_query
ReceiveQuery ==
    /\ ppc = "idle"
    /\ user_query' \in UserTexts
    /\ ppc' = "tables"
    /\ UNCHANGED <<extVars, todo, ai_response, result, calls, schema_info, run_status,
                   elapsed, gwVars, sqlVars>>

\* tables = get_available_tables()
ContextTables ==
    /\ ppc = "tables"
    /\ \E probes_ok \in ProbeOutcomes : get_available_tables(probes_ok)
    /\ todo' = ordered_tables(last'.result)
    /\ ppc' = "schemas"
    /\ UNCHANGED <<extVars, user_query, ai_response, result, calls, schema_info, run_status,
                   elapsed, now, sqlVars>>

\* _get_dynamic_schema_context: get_table_schema for the next table, and its line
\* when the schema is not empty
ContextSchema ==
    /\ ppc = "schemas"
    /\ todo # <<>>
    /\ \E describe_ok \in SchemaOutcomes(Head(todo)), sample_ok \in SchemaOutcomes(Head(todo)) :
        get_table_schema(Head(todo), describe_ok, sample_ok, catalog(Head(todo)))
    /\ schema_info' = IF last'.result # <<>>
                      THEN Append(schema_info, table_context(Head(todo), last'.result))
                      ELSE schema_info
    /\ todo' = Tail(todo)
    /\ UNCHANGED <<extVars, ppc, user_query, ai_response, result, calls, run_status, elapsed,
                   now, sqlVars>>

\* generate_response_with_assistant, up to the wait: the domain filter, then the
\* thread, the thread message and the run
AskAssistant ==
    /\ ppc = "schemas"
    /\ todo = <<>>
    /\ IF ~_check_domain_relevance(enhanced_query(user_query, schema_info))
       THEN /\ ai_response' = Completion("refusal", <<>>, <<>>)
            /\ calls' = [calls EXCEPT !.filter = "refused"]
            /\ ppc' = "replied"
            /\ UNCHANGED <<run_status, elapsed>>
       ELSE /\ calls' = [calls EXCEPT !.filter = "passed", !.threads = 1,
                                      !.thread_messages = 1, !.runs = 1]
            /\ run_status' \in WaitingStatuses \cup FinalStatuses
            /\ elapsed' = 0
            /\ ppc' = "polling"
            /\ UNCHANGED ai_response
    /\ UNCHANGED <<extVars, user_query, todo, result, schema_info, gwVars, sqlVars>>

\* generate_response_with_assistant raises before the wait (the thread, the
\* message or the run cannot be created): the outer except builds the result
AssistantFails ==
    /\ ppc = "schemas"
    /\ todo = <<>>
    /\ _check_domain_relevance(enhanced_query(user_query, schema_info))
    /\ \E made \in 0..1 :
        calls' = [calls EXCEPT !.filter = "passed", !.threads = 1, !.thread_messages = made]
    /\ result' = error_result("OpenAI Assistant API error")
    /\ ppc' = "done"
    /\ UNCHANGED <<extVars, user_query, todo, ai_response, schema_info, run_status, elapsed,
                   gwVars, sqlVars>>

\* one turn of the loop `while run.status in [...]': the timeout test, then the
\* sleep and the retrieve (which may raise)
PollRun ==
    /\ ppc = "polling"
    /\ run_status \in WaitingStatuses
    /\ IF elapsed > timeout_seconds
       THEN /\ result' = error_result("OpenAI Assistant API error: Assistant run timed out")
            /\ calls' = [calls EXCEPT !.exit = "timeout"]
            /\ ppc' = "done"
            /\ run_status' = "none"
            /\ elapsed' = 0
       ELSE \E turn \in TurnSeconds, retrieved \in BOOLEAN :
            IF retrieved
            THEN /\ elapsed' = elapsed + turn
                 /\ run_status' \in WaitingStatuses \cup FinalStatuses
                 /\ UNCHANGED <<result, calls, ppc>>
            ELSE /\ result' = error_result("OpenAI Assistant API error")
                 /\ calls' = [calls EXCEPT !.exit = "error"]
                 /\ ppc' = "done"
                 /\ run_status' = "none"
                 /\ elapsed' = 0
    /\ UNCHANGED <<extVars, user_query, todo, ai_response, schema_info, gwVars, sqlVars>>

\* (run_status and elapsed are locals of the call: they end with it)
\* the loop is left with run.status == "completed": the content of the thread's
\* last message is the completion
RunCompleted ==
    /\ ppc = "polling"
    /\ run_status = "completed"
    /\ ai_response' \in Completions
    /\ calls' = [calls EXCEPT !.exit = "status"]
    /\ ppc' = "replied"
    /\ run_status' = "none"
    /\ elapsed' = 0
    /\ UNCHANGED <<extVars, user_query, todo, result, schema_info, gwVars, sqlVars>>

\* the loop is left with another status: the raise, and the outer except
RunNotCompleted ==
    /\ ppc = "polling"
    /\ run_status \in FinalStatuses \ {"completed"}
    /\ result' = error_result("OpenAI Assistant API error: Assistant run failed")
    /\ calls' = [calls EXCEPT !.exit = "status"]
    /\ ppc' = "done"
    /\ run_status' = "none"
    /\ elapsed' = 0
    /\ UNCHANGED <<extVars, user_query, todo, ai_response, schema_info, gwVars, sqlVars>>

\* the result with the chart step and the history step applied
finished(updated, n_charts, history_ok) ==
    (IF history_ok THEN [session_info |-> "session"] ELSE <<>>)
    @@ (IF n_charts > 0 THEN [charts |-> n_charts] ELSE <<>>)
    @@ updated

\* whether the chart step calls generate_charts_from_data
charted(text, updated) ==
    IF has_data(updated) /\ should_generate_charts(text, updated["data"]) THEN 1 ELSE 0

\* the rest of the handler when the parsed response carries no statement: the
\* chart step is inside the branch that executes, so only the history step runs
AnswerWithoutQuery ==
    /\ ppc = "replied"
    /\ \E parsed \in {_parse_ai_response(ai_response)} :
        /\ ~has_text(parsed, "sql_query")
        /\ \E history_ok \in BOOLEAN : result' = finished(parsed, 0, history_ok)
    /\ ppc' = "done"
    /\ UNCHANGED <<extVars, user_query, todo, ai_response, calls, schema_info, run_status,
                   elapsed, gwVars, sqlVars>>

\* the rest of the handler when the parsed response carries a statement:
\* _execute_and_analyze_query, result.update, the chart step, the history
AnswerWithQuery ==
    /\ ppc = "replied"
    /\ \E parsed \in {_parse_ai_response(ai_response)} :
        /\ has_text(parsed, "sql_query")
        /\ \E avail \in ResultSizes, ok \in BOOLEAN, shape \in ResultShapes,
              insights \in InsightLists :
            \E done \in {_execute_and_analyze_query(parsed["sql_query"], avail, ok, shape,
                                                    insights)} :
            \E updated \in {done.dict @@ parsed} :
            \E syntheses \in {charted(user_query, updated)} :
                /\ \E n_charts \in 0..(syntheses * MaxCharts), history_ok \in BOOLEAN :
                    result' = finished(updated, n_charts, history_ok)
                /\ calls' = [calls EXCEPT
                                !.validations = 1,
                                !.statements = IF done.sent = <<>> THEN 0 ELSE 1,
                                !.insight_requests = done.insight_requests,
                                !.chart_syntheses = syntheses]
                /\ query' = parsed["sql_query"]
                /\ validation' = done.verdict
                /\ sent' = done.sent
                /\ rows' = done.rows
    /\ caller' = "pipeline"
    /\ ppc' = "done"
    /\ UNCHANGED <<extVars, user_query, todo, ai_response, schema_info, run_status, elapsed,
                   gwVars, pc, error>>

\* the result went back to the endpoint; the next request starts
NextRequest ==
    /\ ppc = "done"
    /\ ppc' = "idle"
    /\ user_query' = <<>>
    /\ ai_response' = Completion("none", <<>>, <<>>)
    /\ result' = <<>>
    /\ calls' = NoCalls
    /\ schema_info' = <<>>
    /\ run_status' = "none"
    /\ elapsed' = 0
    /\ caller' = "none"
    /\ query' = <<>>
    /\ validation' = "none"
    /\ sent' = <<>>
    /\ rows' = -1
    /\ UNCHANGED <<extVars, todo, gwVars, pc, error>>

PipelineNext ==
    \/ ReceiveQuery
    \/ ContextTables
    \/ ContextSchema
    \/ AskAssistant
    \/ AssistantFails
    \/ PollRun
    \/ RunCompleted
    \/ RunNotCompleted
    \/ AnswerWithoutQuery
    \/ AnswerWithQuery
    \/ NextRequest

\* dict.get(key): the value in a tuple, the empty tuple for None
get(d, key) == IF key \in DOMAIN d THEN <<d[key]>> ELSE <<>>

\* chat_with_bot: the fields of ChatResponse that come from the result
chat_response(bi_result) ==
    [query_results |-> get(bi_result, "data"),
     insights |-> get(bi_result, "insights"),
     charts |-> get(bi_result, "charts"),
     sql_query |-> get(bi_result, "sql_query"),
     success |-> IF "success" \in DOMAIN bi_result THEN bi_result["success"] ELSE FALSE,
     session_info |-> get(bi_result, "session_info")]

(***************************************************************************)
(* _parse_ai_response on the text of a completion.                         *)
(***************************************************************************)
\* the documents json.loads accepts among the completions, with the object each
\* one yields; every other text that begins with '{' makes json.loads raise
JsonDocuments ==
    { [text |-> <<"{", "\"", "s", "q", "l", "_", "q", "u", "e", "r", "y", "\"", ":", " ", "\"", "S", "E", "L", "E", "C", "T", " ", "1", "\"", ",", " ", "\"", "e", "x", "p", "l", "a", "n", "a", "t", "i", "o", "n", "\"", ":", " ", "\"", "o", "n", "e", "\"", "}">>,
       object |-> [sql_query |-> <<"S", "E", "L", "E", "C", "T", " ", "1">>, explanation |-> <<"o", "n", "e">>]],
      [text |-> <<"{", "\"", "e", "x", "p", "l", "a", "n", "a", "t", "i", "o", "n", "\"", ":", " ", "\"", "n", "o", "t", "h", "i", "n", "g", " ", "t", "o", " ", "r", "u", "n", "\"", "}">>,
       object |-> [explanation |-> <<"n", "o", "t", "h", "i", "n", "g", " ", "t", "o", " ", "r", "u", "n">>]] }

json_valid(text) == \E d \in JsonDocuments : d.text = strip(text)
json_loads(text) == (CHOOSE d \in JsonDocuments : d.text = strip(text)).object

\* texts are sequences of characters; the grave accent is written "<grave>"
fence_open == <<"<grave>", "<grave>", "<grave>", "s", "q", "l">>
fence_close == <<"\n", "<grave>", "<grave>", "<grave>">>

\* the regular expression ```sql\s*\n(.*?)\n``` (DOTALL, IGNORECASE): where its
\* ```sql can begin, where its \s*\n can end after the ```sql at i, where its
\* closing \n``` can begin
fence_opens(s) == LET low == lower(s) IN {i \in 1..Len(s) : occurs_at(low, fence_open, i)}
fence_closes(s) == {e \in 1..Len(s) : occurs_at(s, fence_close, e)}
fence_breaks(s, i) ==
    {j \in (i + Len(fence_open))..Len(s) :
        s[j] = "\n" /\ \A k \in (i + Len(fence_open))..(j - 1) : isspace(s[k])}

\* re.findall(...)[0]: the leftmost match; \s* takes the longest run that still
\* lets the rest match, the group the shortest text
first_sql_block(s) ==
    LET closes == fence_closes(s)
        feasible(i) == {j \in fence_breaks(s, i) : \E e \in closes : e >= j + 1}
        starts == {i \in fence_opens(s) : feasible(i) # {}}
    IN IF starts = {} THEN None
       ELSE LET i == CHOOSE x \in starts : \A y \in starts : x <= y
                j == CHOOSE x \in feasible(i) : \A y \in feasible(i) : y <= x
                e == CHOOSE x \in closes : x >= j + 1 /\ \A y \in closes : y >= j + 1 => x <= y
            IN Some(SubSeq(s, j + 1, e - 1))

\* response.split('\n')
RECURSIVE split_lines(_)
split_lines(s) ==
    IF \A k \in 1..Len(s) : s[k] # "\n" THEN <<s>>
    ELSE LET k == CHOOSE x \in 1..Len(s) : s[x] = "\n" /\ \A y \in 1..(x - 1) : s[y] # "\n"
         IN <<SubSeq(s, 1, k - 1)>> \o split_lines(SubSeq(s, k + 1, Len(s)))

\* line.upper().startswith('SELECT') or line.upper().startswith('WITH')
is_statement_line(line) ==
    startswith(upper(strip(line)), SELECT_) \/ startswith(upper(strip(line)), WITH_)

\* the loop over the lines: the first stripped line that begins a statement
first_statement_line(s) ==
    LET lines == split_lines(s)
        found == {k \in 1..Len(lines) : is_statement_line(lines[k])}
    IN IF found = {} THEN None
       ELSE Some(strip(lines[CHOOSE x \in found : \A y \in found : x <= y]))

\* _parse_ai_response(response), on the text; sql_query is None or the statement
parse_response_text(text) ==
    IF startswith(strip(text), <<"{">>)
    THEN IF json_valid(text) THEN json_loads(text)
         ELSE [explanation |-> text, business_context |-> "Analysis requested by user",
               expected_insights |-> <<>>]
    ELSE [sql_query |-> LET sql_blocks == first_sql_block(text)
                        IN IF sql_blocks # None THEN Some(strip(sql_blocks[1]))
                           ELSE first_statement_line(text),
          explanation |-> strip(text),
          business_context |-> "Analysis requested by user", expected_insights |-> <<>>]

\* the completions: an opening, then a fenced block and a line of its own in
\* either order, each of them optional; and the JSON documents
Openings == { <<>>, <<"H", "e", "r", "e", " ", "i", "s", " ", "t", "h", "e", " ", "q", "u", "e", "r", "y", " ", "y", "o", "u", " ", "a", "s", "k", "e", "d", " ", "f", "o", "r", ".">>, <<"{", "\"", "s", "q", "l", "_", "q", "u", "e", "r", "y", "\"", ":", " ", "s", "e", "e", " ", "b", "e", "l", "o", "w", "}">>,
              <<"s", "e", "l", "e", "c", "t", " ", "t", "h", "e", " ", "r", "o", "w", "s", " ", "a", "s", " ", "f", "o", "l", "l", "o", "w", "s">> }
BlockContents == { <<>>, <<"S", "E", "L", "E", "C", "T", " ", "r", "e", "g", "i", "o", "n", ",", " ", "C", "O", "U", "N", "T", "(", "*", ")", " ", "F", "R", "O", "M", " ", "t", " ", "G", "R", "O", "U", "P", " ", "B", "Y", " ", "r", "e", "g", "i", "o", "n">>,
                   <<" ", "w", "i", "t", "h", " ", "x", " ", "a", "s", " ", "(", "s", "e", "l", "e", "c", "t", " ", "1", ")", "\n", "s", "e", "l", "e", "c", "t", " ", "*", " ", "f", "r", "o", "m", " ", "x", " ">> }
FenceWords == { <<"<grave>", "<grave>", "<grave>", "s", "q", "l">>, <<"<grave>", "<grave>", "<grave>", "S", "Q", "L", " ", " ">> }
StatementLines == { <<>>, <<" ", " ", "S", "e", "l", "e", "c", "t", " ", "2", " ", "f", "r", "o", "m", " ", "t">>, <<"W", "I", "T", "H", " ", "y", " ", "A", "S", " ", "(", "S", "E", "L", "E", "C", "T", " ", "3", ")", " ", "S", "E", "L", "E", "C", "T", " ", "*", " ", "F", "R", "O", "M", " ", "y">> }

fenced(word, content) == word \o <<"\n">> \o content \o fence_close

\* the non-empty parts, one per line
RECURSIVE joined(_)
joined(parts) ==
    IF parts = <<>> THEN <<>>
    ELSE IF Head(parts) = <<>> THEN joined(Tail(parts))
    ELSE IF joined(Tail(parts)) = <<>> THEN Head(parts)
    ELSE Head(parts) \o <<"\n">> \o joined(Tail(parts))

Responses ==
    { [text |-> joined(<<o, IF block_first THEN (IF c = <<>> THEN <<>> ELSE fenced(w, c)) ELSE l,
                            IF block_first THEN l ELSE (IF c = <<>> THEN <<>> ELSE fenced(w, c))>>),
       opening |-> o, block |-> c, line |-> l, document |-> None] :
        o \in Openings, c \in BlockContents, w \in FenceWords, l \in StatementLines,
        block_first \in BOOLEAN }
    \cup { [text |-> d.text, opening |-> <<>>, block |-> <<>>, line |-> <<>>,
            document |-> Some(d.object)] : d \in JsonDocuments }

ParseInit ==
    /\ ai_content = None
    /\ parse_result = None

\* ai_response.content arrives
ResponseReceived ==
    /\ ai_content = None
    /\ \E r \in Responses : ai_content' = Some(r)
    /\ UNCHANGED <<parse_result, samplerVars, cleanVars, chartVars, loopVars, insightVars, threadVars, loginVars, sqlVars, gwVars, pipeVars>>

\* result = self._parse_ai_response(ai_response.content)
ParseResponse ==
    /\ ai_content # None
    /\ parse_result = None
    /\ parse_result' = Some(parse_response_text(ai_content[1].text))
    /\ UNCHANGED <<ai_content, samplerVars, cleanVars, chartVars, loopVars, insightVars, threadVars, loginVars, sqlVars, gwVars, pipeVars>>

\* the handler goes on with the parsed result
ParsedTaken ==
    /\ parse_result # None
    /\ ai_content' = None
    /\ parse_result' = None
    /\ UNCHANGED <<samplerVars, cleanVars, chartVars, loopVars, insightVars, threadVars, loginVars, sqlVars, gwVars, pipeVars>>

ParseNext == ResponseReceived \/ ParseResponse \/ ParsedTaken

(***************************************************************************)
(* _generate_insights_from_data: the insights read out of a completion.    *)
(***************************************************************************)
\* JSON values: a list of items, a dict, or a scalar; text_of is what str() of the
\* value gives
JsonString(text) == [type |-> "str", items |-> <<>>, insights |-> None, text_of |-> text]
JsonNumber(text) == [type |-> "int", items |-> <<>>, insights |-> None, text_of |-> text]
JsonList(items, text) == [type |-> "list", items |-> items, insights |-> None, text_of |-> text]
JsonDict(insights_value, text) ==
    [type |-> "dict", items |-> <<>>, insights |-> insights_value, text_of |-> text]

\* the list literals of the completions, with the value json.loads gives
ListLiterals ==
    { [text |-> <<"[", "\"", "a", "\"", "]">>, value |-> JsonList(<<JsonString(<<"a">>)>>, <<"[", "'", "a", "'", "]">>)],
      [text |-> <<"[", "\"", "2", "9", "1", " ", "a", "g", "e", "n", "t", "s", "\"", ",", " ", "\"", "6", "8", "%", "\"", "]">>,
       value |-> JsonList(<<JsonString(<<"2", "9", "1", " ", "a", "g", "e", "n", "t", "s">>), JsonString(<<"6", "8", "%">>)>>,
                          <<"[", "'", "2", "9", "1", " ", "a", "g", "e", "n", "t", "s", "'", ",", " ", "'", "6", "8", "%", "'", "]">>)],
      [text |-> <<"[", "[", "\"", "a", "\"", "]", ",", " ", "[", "\"", "b", "\"", "]", "]">>,
       value |-> JsonList(<<JsonList(<<JsonString(<<"a">>)>>, <<"[", "'", "a", "'", "]">>),
                            JsonList(<<JsonString(<<"b">>)>>, <<"[", "'", "b", "'", "]">>)>>,
                          <<"[", "[", "'", "a", "'", "]", ",", " ", "[", "'", "b", "'", "]", "]">>)],
      [text |-> <<"[", "\"", "x", "\"", "]">>, value |-> JsonList(<<JsonString(<<"x">>)>>, <<"[", "'", "x", "'", "]">>)],
      [text |-> <<"[", "\"", "z", "\"", "]">>, value |-> JsonList(<<JsonString(<<"z">>)>>, <<"[", "'", "z", "'", "]">>)],
      [text |-> <<"[", "]">>, value |-> JsonList(<<>>, <<"[", "]">>)] }

\* the other JSON documents of the completions
OtherDocuments ==
    { [text |-> <<"{", "\"", "i", "n", "s", "i", "g", "h", "t", "s", "\"", ":", " ", "[", "\"", "a", "\"", "]", "}">>,
       value |-> JsonDict(Some(JsonList(<<JsonString(<<"a">>)>>, <<"[", "'", "a", "'", "]">>)),
                          <<"{", "'", "i", "n", "s", "i", "g", "h", "t", "s", "'", ":", " ", "[", "'", "a", "'", "]", "}">>)],
      [text |-> <<"{", "\"", "i", "n", "s", "i", "g", "h", "t", "s", "\"", ":", " ", "\"", "n", "o", "n", "e", " ", "y", "e", "t", "\"", "}">>,
       value |-> JsonDict(Some(JsonString(<<"n", "o", "n", "e", " ", "y", "e", "t">>)), <<"{", "'", "i", "n", "s", "i", "g", "h", "t", "s", "'", ":", " ", "'", "n", "o", "n", "e", " ", "y", "e", "t", "'", "}">>)],
      [text |-> <<"{", "\"", "s", "u", "m", "m", "a", "r", "y", "\"", ":", " ", "[", "\"", "x", "\"", "]", "}">>, value |-> JsonDict(None, <<"{", "'", "s", "u", "m", "m", "a", "r", "y", "'", ":", " ", "[", "'", "x", "'", "]", "}">>)],
      [text |-> <<"\"", "N", "o", " ", "i", "n", "s", "i", "g", "h", "t", "s", "\"">>, value |-> JsonString(<<"N", "o", " ", "i", "n", "s", "i", "g", "h", "t", "s">>)],
      [text |-> <<"4", "2">>, value |-> JsonNumber(<<"4", "2">>)] }

\* json.loads(text) does not raise JSONDecodeError; every other text of the
\* completions is not a JSON document
JsonTexts == {d.text : d \in ListLiterals \cup OtherDocuments}
json_decodes(text) == strip(text) \in JsonTexts
json_value(text) ==
    IF \E d \in ListLiterals : d.text = strip(text)
    THEN (CHOOSE d \in ListLiterals : d.text = strip(text)).value
    ELSE (CHOOSE d \in OtherDocuments : d.text = strip(text)).value

\* a faulty variant: the span runs to the last closing bracket
array_match_greedy(s) ==
    IF \E i, j \in 1..Len(s) : i < j /\ s[i] = "[" /\ s[j] = "]"
    THEN LET i == CHOOSE x \in 1..Len(s) : s[x] = "[" /\ \A y \in 1..(x - 1) : s[y] # "["
             j == CHOOSE x \in (i + 1)..Len(s) : s[x] = "]" /\ \A y \in (x + 1)..Len(s) : s[y] # "]"
         IN Some(SubSeq(s, i, j))
    ELSE None

\* re.search(r'\[[\s\S]*?\]', content): from the first opening bracket that has a
\* closing bracket after it to the first closing bracket after it
array_match(s) ==
    IF \E i, j \in 1..Len(s) : i < j /\ s[i] = "[" /\ s[j] = "]"
    THEN LET i == CHOOSE x \in 1..Len(s) : s[x] = "[" /\ \A y \in 1..(x - 1) : s[y] # "["
             j == CHOOSE x \in (i + 1)..Len(s) : s[x] = "]" /\ \A y \in (i + 1)..(x - 1) : s[y] # "]"
         IN Some(SubSeq(s, i, j))
    ELSE None

\* the parsing of ai_response.content into the list that is returned
insights_of(content) ==
    IF json_decodes(content)
    THEN LET parsed_value == json_value(content)
         IN IF parsed_value.type = "list" THEN parsed_value.items
            ELSE IF parsed_value.type = "dict" /\ parsed_value.insights # None
            THEN IF parsed_value.insights[1].type = "list"
                 THEN parsed_value.insights[1].items
                 ELSE <<JsonString(parsed_value.insights[1].text_of)>>
            ELSE <<JsonString(parsed_value.text_of)>>
    ELSE LET found == array_match(content)
         IN IF found # None /\ json_decodes(found[1])
            THEN IF json_value(found[1]).type = "list"
                 THEN json_value(found[1]).items
                 ELSE <<JsonString(content)>>
            ELSE <<JsonString(content)>>

unable == <<"U", "n", "a", "b", "l", "e", " ", "t", "o", " ", "g", "e", "n", "e", "r", "a", "t", "e", " ", "i", "n", "s", "i", "g", "h", "t", "s", " ", "f", "r", "o", "m", " ", "t", "h", "e", " ", "d", "a", "t", "a">>

\* _generate_insights_from_data for what the assistant call did: the outer
\* except branch returns the one-element fallback
_generate_insights_from_data(reply) ==
    IF reply.outcome = "raises" THEN <<JsonString(unable)>>
    ELSE insights_of(reply.text)

\* the completions: some words, a list literal, some more words, each optional
InsightOpenings == { <<>>, <<"H", "e", "r", "e", " ", "a", "r", "e", " ", "t", "h", "e", " ", "p", "o", "i", "n", "t", "s", ":", " ">>, <<"N", "o", "t", "e", " ", "[", "d", "r", "a", "f", "t", "]", " ">>, <<"-", " ">> }
InsightClosings == { <<>>, <<" ", "(", "d", "o", "n", "e", ")">>, <<" ", "[", "\"", "z", "\"", "]">>, <<" ", "s", "e", "e", " ", "[", "1">> }

InsightReplies ==
    { [outcome |-> "content", text |-> o \o l \o c, opening |-> o, literal |-> l, closing |-> c] :
        o \in InsightOpenings, l \in {d.text : d \in ListLiterals} \cup {<<>>},
        c \in InsightClosings }
    \cup { [outcome |-> "content", text |-> d.text, opening |-> d.text, literal |-> <<>>,
            closing |-> <<>>] : d \in OtherDocuments }
    \cup { [outcome |-> "raises", text |-> <<>>, opening |-> <<>>, literal |-> <<>>,
            closing |-> <<>>] }

InsightsInit ==
    /\ insight_reply = None
    /\ analysis = None

\* generate_response_with_assistant(insight_prompt, "insight_generation") ends
InsightReplyArrives ==
    /\ insight_reply = None
    /\ \E r \in InsightReplies : insight_reply' = Some(r)
    /\ UNCHANGED <<analysis, samplerVars, cleanVars, chartVars, loopVars, parseVars,
                   threadVars, loginVars, sqlVars, gwVars, pipeVars>>

\* the rest of _generate_insights_from_data, and _execute_and_analyze_query after
\* it: the list goes into the result of the executed query
ReadInsights ==
    /\ insight_reply # None
    /\ analysis = None
    /\ analysis' = Some([insights |-> _generate_insights_from_data(insight_reply[1]),
                         success |-> TRUE])
    /\ UNCHANGED <<insight_reply, samplerVars, cleanVars, chartVars, loopVars, parseVars,
                   threadVars, loginVars, sqlVars, gwVars, pipeVars>>

\* the result went back to the caller
AnalysisReturned ==
    /\ analysis # None
    /\ insight_reply' = None
    /\ analysis' = None
    /\ UNCHANGED <<samplerVars, cleanVars, chartVars, loopVars, parseVars,
                   threadVars, loginVars, sqlVars, gwVars, pipeVars>>

InsightsNext == InsightReplyArrives \/ ReadInsights \/ AnalysisReturned

(***************************************************************************)
(* OpenAIProvider.generate_response_with_assistant for concurrent callers: *)
(* each action runs one caller from one await to the next.                 *)
(***************************************************************************)
MaxCallers == 3
Callers == 1..MaxCallers

\* the user ids of the callers; the insight generations all use the second
UserIds == {"user_1", "insight_generation"}

NoMessage == [role |-> "none", of |-> 0]
NewCaller == [at |-> "idle", user_id |-> "", thread_id |-> 0, run |-> "none", content |-> NoMessage]

\* a run of the thread is queued or in progress
active_run(thread) ==
    \E c \in Callers : assistant_call[c].thread_id = thread /\ assistant_call[c].run = "active"

\* get_or_create_thread: `user_id not in self.user_threads', negated
known_thread(user_id, table) == table[user_id] # 0

ThreadsInit ==
    /\ user_threads = [u \in UserIds |-> 0]
    /\ threads = <<>>
    /\ assistant_call = [c \in Callers |-> NewCaller]

\* the call begins (the message has passed _check_domain_relevance):
\* get_or_create_thread finds the user's thread and goes on to messages.create, or
\* awaits threads.create
EnterAssistant(c) ==
    /\ assistant_call[c].at = "idle"
    /\ \E u \in UserIds :
        assistant_call' = [assistant_call EXCEPT ![c] =
            IF known_thread(u, user_threads)
            THEN [@ EXCEPT !.at = "messages.create", !.user_id = u, !.thread_id = user_threads[u]]
            ELSE [@ EXCEPT !.at = "threads.create", !.user_id = u]]
    /\ UNCHANGED <<user_threads, threads>>
    /\ UNCHANGED <<samplerVars, cleanVars, chartVars, loopVars, parseVars, insightVars,
                   loginVars, sqlVars, gwVars, pipeVars>>

\* threads.create returns: self.user_threads[user_id] = thread.id, and the call
\* goes on with self.user_threads[user_id] to messages.create
ThreadCreated(c) ==
    /\ assistant_call[c].at = "threads.create"
    /\ threads' = Append(threads, [created_for |-> assistant_call[c].user_id, messages |-> <<>>])
    /\ user_threads' = [user_threads EXCEPT ![assistant_call[c].user_id] = Len(threads')]
    /\ assistant_call' = [assistant_call EXCEPT ![c] =
            [@ EXCEPT !.at = "messages.create", !.thread_id = Len(threads')]]
    /\ UNCHANGED <<samplerVars, cleanVars, chartVars, loopVars, parseVars, insightVars,
                   loginVars, sqlVars, gwVars, pipeVars>>

\* messages.create returns: the user message is in the thread, unless a run of
\* the thread is active, which the service refuses; then runs.create is awaited
MessageCreated(c) ==
    /\ assistant_call[c].at = "messages.create"
    /\ IF active_run(assistant_call[c].thread_id)
       THEN /\ assistant_call' = [assistant_call EXCEPT ![c].at = "raised"]
            /\ UNCHANGED threads
       ELSE /\ threads' = [threads EXCEPT ![assistant_call[c].thread_id].messages =
                                Append(@, [role |-> "user", of |-> c])]
            /\ assistant_call' = [assistant_call EXCEPT ![c].at = "runs.create"]
    /\ UNCHANGED user_threads
    /\ UNCHANGED <<samplerVars, cleanVars, chartVars, loopVars, parseVars, insightVars,
                   loginVars, sqlVars, gwVars, pipeVars>>

\* runs.create returns: the run is queued, unless a run of the thread is active,
\* which the service refuses; the wait loop begins
RunCreated(c) ==
    /\ assistant_call[c].at = "runs.create"
    /\ assistant_call' = [assistant_call EXCEPT ![c] =
            IF active_run(assistant_call[c].thread_id)
            THEN [@ EXCEPT !.at = "raised"]
            ELSE [@ EXCEPT !.at = "runs.retrieve", !.run = "active"]]
    /\ UNCHANGED <<user_threads, threads>>
    /\ UNCHANGED <<samplerVars, cleanVars, chartVars, loopVars, parseVars, insightVars,
                   loginVars, sqlVars, gwVars, pipeVars>>

\* the service ends the run: it completes, and the assistant's reply to the run
\* is in the thread, or it fails
RunEnds(c) ==
    /\ assistant_call[c].run = "active"
    /\ \/ /\ threads' = [threads EXCEPT ![assistant_call[c].thread_id].messages =
                                Append(@, [role |-> "assistant", of |-> c])]
          /\ assistant_call' = [assistant_call EXCEPT ![c].run = "completed"]
       \/ /\ assistant_call' = [assistant_call EXCEPT ![c].run = "failed"]
          /\ UNCHANGED threads
    /\ UNCHANGED user_threads
    /\ UNCHANGED <<samplerVars, cleanVars, chartVars, loopVars, parseVars, insightVars,
                   loginVars, sqlVars, gwVars, pipeVars>>

\* the wait loop sees the run's status after a sleep and a runs.retrieve: it
\* goes on to messages.list when the run is completed, raises when the run has
\* failed, and raises on the timeout while the run is still active
RunRetrieved(c) ==
    /\ assistant_call[c].at = "runs.retrieve"
    /\ assistant_call' = [assistant_call EXCEPT ![c].at =
            IF assistant_call[c].run = "completed" THEN "messages.list" ELSE "raised"]
    /\ UNCHANGED <<user_threads, threads>>
    /\ UNCHANGED <<samplerVars, cleanVars, chartVars, loopVars, parseVars, insightVars,
                   loginVars, sqlVars, gwVars, pipeVars>>

\* messages.list(order="desc", limit=1) returns: messages.data[0] is the latest
\* message of the thread, and its text is returned
MessagesListed(c) ==
    /\ assistant_call[c].at = "messages.list"
    /\ LET messages == threads[assistant_call[c].thread_id].messages
       IN assistant_call' = [assistant_call EXCEPT ![c] =
            [@ EXCEPT !.at = "returned", !.content = messages[Len(messages)]]]
    /\ UNCHANGED <<user_threads, threads>>
    /\ UNCHANGED <<samplerVars, cleanVars, chartVars, loopVars, parseVars, insightVars,
                   loginVars, sqlVars, gwVars, pipeVars>>

ThreadsNext ==
    \E c \in Callers :
        \/ EnterAssistant(c)
        \/ ThreadCreated(c)
        \/ MessageCreated(c)
        \/ RunCreated(c)
        \/ RunEnds(c)
        \/ RunRetrieved(c)
        \/ MessagesListed(c)

(***************************************************************************)
(* LocalUserManagementService.login_user for one account that has set its  *)
(* password.  Time is in minutes.                                          *)
(***************************************************************************)
MaxMinutes == 60        \* the clock stops here
MinuteStep == 5
MaxAttempts == 7        \* failed attempts are not made beyond this count
lock_threshold == 5
lock_minutes == 30

NoLogin == [outcome |-> "none", correct |-> FALSE]

LoginInit ==
    /\ user_row = [status |-> "active", failed_login_attempts |-> 0, locked_until |-> None]
    /\ minute = 0
    /\ login = NoLogin

\* the checks of login_user before the password is verified: the error it
\* raises, "" when it goes on
status_error(user, utcnow) ==
    IF user.status = "pending_verification" THEN "Please verify your email address first"
    ELSE IF user.status = "suspended" THEN "Account is suspended"
    ELSE IF user.status = "locked" /\ user.locked_until # None /\ utcnow < user.locked_until[1]
    THEN "Account is temporarily locked"
    ELSE ""

\* _increment_failed_attempts: the row after it
_increment_failed_attempts(user, utcnow) ==
    LET new_attempts == user.failed_login_attempts + 1
    IN IF new_attempts >= lock_threshold
       THEN [user EXCEPT !.failed_login_attempts = new_attempts,
                         !.locked_until = Some(utcnow + lock_minutes)]
       ELSE [user EXCEPT !.failed_login_attempts = new_attempts]

\* _reset_failed_attempts: the row after it
_reset_failed_attempts(user) ==
    [user EXCEPT !.failed_login_attempts = 0, !.locked_until = None]

\* login_user(email, password) with the right or a wrong password
LoginUser ==
    /\ \E correct \in BOOLEAN :
        /\ ~correct => user_row.failed_login_attempts < MaxAttempts
        /\ IF status_error(user_row, minute) # ""
           THEN /\ login' = [outcome |-> status_error(user_row, minute), correct |-> correct]
                /\ UNCHANGED user_row
           ELSE IF ~correct
           THEN /\ user_row' = _increment_failed_attempts(user_row, minute)
                /\ login' = [outcome |-> "Invalid credentials", correct |-> correct]
           ELSE /\ user_row' = _reset_failed_attempts(user_row)
                /\ login' = [outcome |-> "tokens", correct |-> correct]
    /\ UNCHANGED minute
    /\ UNCHANGED <<samplerVars, cleanVars, chartVars, loopVars, parseVars, insightVars,
                   threadVars, sqlVars, gwVars, pipeVars>>

\* time passes
MinutesPass ==
    /\ minute + MinuteStep <= MaxMinutes
    /\ minute' = minute + MinuteStep
    /\ UNCHANGED <<user_row, login>>
    /\ UNCHANGED <<samplerVars, cleanVars, chartVars, loopVars, parseVars, insightVars,
                   threadVars, sqlVars, gwVars, pipeVars>>

LoginNext == LoginUser \/ MinutesPass

Init == SqlInit /\ GwInit /\ PipeInit /\ SamplerInit /\ CleanInit /\ ChartsInit /\ LoopInit /\ ParseInit /\ InsightsInit /\ ThreadsInit /\ LoginInit

SpecSql == Init /\ [][SqlNext]_vars

SpecCache == Init /\ [][CacheNext]_vars

SpecPipeline == Init /\ [][PipelineNext]_vars

SpecSampler == Init /\ [][SamplerNext]_vars

SpecClean == Init /\ [][CleanNext]_vars

SpecCharts == Init /\ [][ChartsNext]_vars

SpecLoop == Init /\ [][LoopNext]_vars

SpecParse == Init /\ [][ParseNext]_vars

SpecInsights == Init /\ [][InsightsNext]_vars

SpecThreads == Init /\ [][ThreadsNext]_vars

SpecLogin == Init /\ [][LoginNext]_vars

\* the event loop resumes a coroutine whose awaited sleep or API call has ended:
\* a wait that can take its next step eventually takes it
SpecPipelineFair ==
    SpecPipeline /\ WF_vars(PollRun) /\ WF_vars(RunCompleted) /\ WF_vars(RunNotCompleted)

(***************************************************************************)
(* Properties of the validator and of execute_query (SpecSql).             *)
(***************************************************************************)
ForbiddenWords ==
    { <<"D", "E", "L", "E", "T", "E">>, <<"D", "R", "O", "P">>, <<"I", "N", "S", "E", "R", "T">>, <<"U", "P", "D", "A", "T", "E">>, <<"A", "L", "T", "E", "R">>, <<"C", "R", "E", "A", "T", "E">>, <<"T", "R", "U", "N", "C", "A", "T", "E">> }

SameLetters(a, b) ==
    Len(a) = Len(b) /\ \A i \in 1..Len(a) : upper_char(a[i]) = upper_char(b[i])

\* w is one of the words of s, in any letter case: its letters occur with no
\* identifier character next to them on either side
HasWord(s, w) ==
    \E i \in 1..(Len(s) - Len(w) + 1) :
        /\ SameLetters(SubSeq(s, i, i + Len(w) - 1), w)
        /\ (i = 1 \/ ~is_word_char(s[i - 1]))
        /\ (i + Len(w) - 1 = Len(s) \/ ~is_word_char(s[i + Len(w)]))

HasStandaloneKeyword(s) == \E w \in ForbiddenWords : HasWord(s, w)

\* w occurs in s, in any letter case, standalone or inside a longer identifier
HasLetters(s, w) ==
    \E i \in 1..Len(s) : i + Len(w) - 1 <= Len(s) /\ SameLetters(SubSeq(s, i, i + Len(w) - 1), w)

RECURSIVE DropLeadingSpace(_)
DropLeadingSpace(s) ==
    IF s # <<>> /\ Head(s) \in {" ", "\n", "\t"} THEN DropLeadingSpace(Tail(s)) ELSE s

\* the trimmed text begins with the letters of w, in any letter case
BeginsWith(s, w) ==
    LET t == DropLeadingSpace(s) IN Len(w) <= Len(t) /\ SameLetters(SubSeq(t, 1, Len(w)), w)

BeginsWithSelectOrWith(s) == BeginsWith(s, <<"s", "e", "l", "e", "c", "t">>) \/ BeginsWith(s, <<"w", "i", "t", "h">>)

\* C1: validate returns false for every statement in which one of DELETE, DROP,
\* INSERT, UPDATE, ALTER, CREATE, TRUNCATE occurs as a standalone whole word, in any
\* letter case, wherever it occurs and whatever the statement starts with; the two
\* scenario statements are rejected.
C1_StandaloneKeywordRejected ==
    validation # "none" =>
        /\ HasStandaloneKeyword(query) => validation = "rejected"
        /\ query \in {Scenario_DropFirst, Scenario_DropLast} => validation = "rejected"

\* a statement that begins with SELECT and holds a standalone keyword further on
\* has been validated and rejected
C1_Witness ==
    /\ validation = "rejected"
    /\ BeginsWithSelectOrWith(query)
    /\ HasStandaloneKeyword(query)
    /\ query = Scenario_DropLast

\* C2: validate returns true for every statement that begins, after trimming, with
\* SELECT or WITH and in which forbidden keywords occur only inside longer
\* identifiers and never as a standalone word.
C2_EmbeddedKeywordAccepted ==
    (validation # "none" /\ BeginsWithSelectOrWith(query) /\ ~HasStandaloneKeyword(query))
        => validation = "passed"

\* SELECT UPDATED_AT FROM T, whose only keyword is inside an identifier, has passed
C2_Witness ==
    /\ validation = "passed"
    /\ query = Scenario_UpdatedAt
    /\ \E w \in ForbiddenWords : HasLetters(query, w)
    /\ ~HasStandaloneKeyword(query)

\* C3: validate returns false for every statement whose trimmed, upper-cased text
\* does not start with SELECT or WITH, whether or not it holds a forbidden keyword.
C3_PrefixRequired ==
    (validation # "none" /\ ~BeginsWithSelectOrWith(query)) => validation = "rejected"

\* a statement without any forbidden keyword that does not begin with SELECT or
\* WITH has been rejected
C3_Witness ==
    /\ validation = "rejected"
    /\ ~BeginsWithSelectOrWith(query)
    /\ query # <<>>
    /\ ~ \E w \in ForbiddenWords : HasLetters(query, w)

RowCap == 200

\* C4: every ResultSet execute returns, to the query pipeline, the samplers, the
\* sample endpoint or the weekly digest, has at most 200 rows, even when the
\* statement carries a larger LIMIT or none.
C4_RowCap ==
    (pc = "returned" /\ caller \in {"pipeline", "sample", "ordered", "digest"})
        => rows <= RowCap

\* the text the claim expects for a statement without a LIMIT clause
WithLimitAppended(s) ==
    IF endswith(strip(s), <<";">>)
    THEN SubSeq(strip(s), 1, Len(strip(s)) - 1) \o <<" ", "L", "I", "M", "I", "T", " ", "2", "0", "0", ";">>
    ELSE s \o <<" ", "L", "I", "M", "I", "T", " ", "2", "0", "0">>

\* C5: a statement that specifies no LIMIT clause, also one whose identifiers merely
\* contain the letters LIMIT, is sent with ' LIMIT 200' appended (before a trailing
\* ';'); a statement that specifies a LIMIT clause is sent unchanged.
C5_LimitAppended ==
    sent # <<>> =>
        IF HasWord(query, <<"L", "I", "M", "I", "T">>) THEN sent = query ELSE sent = WithLimitAppended(query)

(***************************************************************************)
(* Properties of the query pipeline (SpecPipeline).                        *)
(***************************************************************************)
\* C6: a candidate query that validate_query rejects is never passed to
\* execute_query: the request ends with the error "Query contains forbidden
\* operations" and success = false, and no warehouse statement, insight request or
\* chart synthesis happens for that candidate.
C6_RejectedNeverExecuted ==
    (ppc = "done" /\ validation = "rejected")
        => /\ "error" \in DOMAIN result
           /\ result["error"] = "Query contains forbidden operations"
           /\ "success" \in DOMAIN result
           /\ result["success"] = FALSE
           /\ sent = <<>>
           /\ calls.statements = 0
           /\ calls.insight_requests = 0
           /\ calls.chart_syntheses = 0

(***************************************************************************)
(* Properties of the metadata cache (SpecCache).                           *)
(***************************************************************************)
\* C7: every value get_available_tables or get_table_schema returns from the
\* cache was fetched less than TTL (3600 s) before the read: nothing fetched
\* longer ago is ever served as a cache hit.
C7_NoStaleHit ==
    (last.op \in {"listTables", "getSchema"} /\ last.hit)
        => last.time - last.filledAt < _cache_ttl

\* the call that returned last is a get_table_schema call that follows an earlier
\* call for the same table, with no invalidation between them, and is made less
\* than TTL after the stamp the cache carried when the earlier call returned
SecondCallWithinTTL ==
    /\ last.op = "getSchema"
    /\ last.before # None
    /\ last.time - last.before[1].epoch < _cache_ttl

\* C8, as claimed: the second of two get_table_schema calls for a table within the
\* TTL window, with no invalidation between them, returns the metadata the first
\* returned and issues no warehouse statement.
C8_SecondCallIsHit ==
    SecondCallWithinTTL
        => /\ last.result = last.before[1].result
           /\ last.stmts = <<>>

\* C8, amended: the same, when the first call returned metadata (from the cache,
\* the DESCRIBE or the fallback sample).
C8_SecondCallIsHitAfterFetch ==
    (SecondCallWithinTTL /\ last.before[1].got)
        => /\ last.result = last.before[1].result
           /\ last.stmts = <<>>

\* a second call within TTL of a first call that fetched the schema from the
\* warehouse has been answered, after the clock moved
C8_Witness ==
    /\ SecondCallWithinTTL
    /\ last.before[1].got
    /\ last.time > last.before[1].epoch
    /\ last.hit
    /\ last.result # <<>>

\* what a refresh by the call that returned last leaves behind
Refreshed ==
    /\ last.stmts \in {<<[kind |-> "describe", table |-> last.table]>>,
                       <<[kind |-> "describe", table |-> last.table],
                         [kind |-> "sample", table |-> last.table]>>}
    /\ last.table \in DOMAIN _schema_cache
    /\ _schema_cache[last.table] = last.result
    /\ _cache_timestamp = last.time

\* the call that returned last follows, within TTL, a call for the same table that
\* refreshed the table's metadata after the TTL had expired
FollowsRefresh ==
    /\ SecondCallWithinTTL
    /\ last.before[1].refreshed

\* C9, as claimed: a get_table_schema call made after the TTL has expired issues
\* the introspection once, stores the new metadata and re-stamps the cache, and
\* the next call for the table within TTL is a cache hit.
C9_RefreshAfterExpiry ==
    /\ (last.op = "getSchema" /\ last.stale) => Refreshed
    /\ FollowsRefresh => last.hit

\* C9, amended: the same, when the DESCRIBE or the fallback sample succeeds.
C9_RefreshAfterExpiryWhenFetched ==
    /\ (last.op = "getSchema" /\ last.stale /\ last.outcome \in {"described", "sampled"})
           => Refreshed
    /\ FollowsRefresh => last.hit

\* a call within TTL of a refresh, which replaced metadata cached more than TTL
\* earlier, has been answered from the cache
C9_Witness ==
    /\ FollowsRefresh
    /\ last.hit
    /\ last.time > last.before[1].epoch
    /\ last.before[1].epoch >= StartTime + _cache_ttl

\* C10: when every existence probe fails, get_available_tables returns the five
\* candidate names unverified instead of an empty list.
C10_DegradedList ==
    (last.op = "listTables" /\ last.outcome = "none verified")
        => last.result = allowed_tables

(***************************************************************************)
(* Properties of the gateway's table operations (SpecCache).               *)
(***************************************************************************)
\* C11: a table that is not in the verified table list is never executed against:
\* no statement get_table_schema issues names a table outside the list
\* get_available_tables has verified and cached.
C11_OnlyVerifiedTables ==
    (last.op = "getSchema" /\ _table_list_cache # None)
        => \A k \in 1..Len(last.stmts) : InList(last.stmts[k].table, _table_list_cache[1])

\* what the fallback promises for the columns the sample reports
AllGenericText(returned, columns) ==
    /\ Len(returned) = Len(columns)
    /\ \A i \in 1..Len(returned) :
        /\ returned[i].name = columns[i]
        /\ returned[i].type = "VARCHAR"
        /\ returned[i].nullable = TRUE
        /\ returned[i].default = "None"

\* C12: get_table_schema never raises: when DESCRIBE fails and the SELECT * LIMIT 1
\* probe succeeds it returns and caches a map in which every probed column is
\* VARCHAR, nullable, with default null; when both fail it returns the empty map
\* and caches nothing.
C12_SchemaFallbacks ==
    /\ [](last.op = "getSchema" =>
            /\ last.outcome \in {"cached", "described", "sampled", "failed"}
            /\ last.outcome = "sampled" =>
                 /\ \E described \in DescribeOutputs : AllGenericText(last.result, column_names(described))
                 /\ last.table \in DOMAIN _schema_cache
                 /\ _schema_cache[last.table] = last.result
            /\ last.outcome = "failed" => last.result = <<>>)
    /\ [][(last'.op = "getSchema" /\ last'.outcome = "failed")
              => UNCHANGED <<_schema_cache, _cache_timestamp>>]_vars

\* the fallback has answered a call whose DESCRIBE failed, and another call has
\* failed twice and left the cache as it was
C12_Witness ==
    /\ last.op = "getSchema"
    /\ last.outcome = "failed"
    /\ last.result = <<>>
    /\ \E t \in DOMAIN _schema_cache : t # last.table /\ \E i \in 1..Len(_schema_cache[t]) :
          _schema_cache[t][i].type = "VARCHAR" /\ _schema_cache[t][i].name = "SOLVED_WEEK"

(***************************************************************************)
(* Properties of the ordered sampler (SpecSampler).                        *)
(***************************************************************************)
\* the column's name contains one of the audit patterns, in any letter case
NameMatches(c) == \E k \in 1..Len(audit_patterns) : HasLetters(c.name, audit_patterns[k])

\* the schema of the scenario: SOLVED_WEEK, then AHT_MINUTES
ScenarioSchema ==
    /\ Len(sampled_schema) = 2
    /\ sampled_schema[1].name = <<"S", "O", "L", "V", "E", "D", "_", "W", "E", "E", "K">>
    /\ sampled_schema[2].name = <<"A", "H", "T", "_", "M", "I", "N", "U", "T", "E", "S">>

\* C13, as claimed: the order column is the first column, in the schema's column
\* order, whose upper-cased name contains any audit pattern; for the schema
\* {SOLVED_WEEK, AHT_MINUTES} it is SOLVED_WEEK; a name match is chosen over a
\* column that matches only by its declared type.
C13_FirstMatchingColumn ==
    ordered_query # <<>> =>
        /\ (\E i \in 1..Len(sampled_schema) : NameMatches(sampled_schema[i]))
              => \E i \in 1..Len(sampled_schema) :
                    /\ NameMatches(sampled_schema[i])
                    /\ \A j \in 1..(i - 1) : ~NameMatches(sampled_schema[j])
                    /\ order_column = Some(sampled_schema[i].name)
        /\ ScenarioSchema => order_column = Some(<<"S", "O", "L", "V", "E", "D", "_", "W", "E", "E", "K">>)

\* C13, amended: the order column is chosen by the earliest audit pattern, in the
\* pattern list's order, that any column name contains, and is the first column in
\* the schema's order whose name contains that pattern; for {SOLVED_WEEK,
\* AHT_MINUTES} it is SOLVED_WEEK; a name match is chosen over a column that
\* matches only by its declared type.
C13_FirstColumnOfFirstPattern ==
    ordered_query # <<>> =>
        /\ (\E i \in 1..Len(sampled_schema) : NameMatches(sampled_schema[i]))
              => \E k \in 1..Len(audit_patterns), i \in 1..Len(sampled_schema) :
                    /\ HasLetters(sampled_schema[i].name, audit_patterns[k])
                    /\ \A j \in 1..(i - 1) : ~HasLetters(sampled_schema[j].name, audit_patterns[k])
                    /\ \A l \in 1..(k - 1), j \in 1..Len(sampled_schema) :
                          ~HasLetters(sampled_schema[j].name, audit_patterns[l])
                    /\ order_column = Some(sampled_schema[i].name)
        /\ ScenarioSchema => order_column = Some(<<"S", "O", "L", "V", "E", "D", "_", "W", "E", "E", "K">>)

\* a schema whose first column matches by type only and whose two other columns
\* match by name has been sampled, and the later of the two was chosen
C13_Witness ==
    /\ Len(sampled_schema) = 3
    /\ ~NameMatches(sampled_schema[1])
    /\ HasLetters(sampled_schema[1].type, <<"D", "A", "T", "E">>)
    /\ NameMatches(sampled_schema[2])
    /\ NameMatches(sampled_schema[3])
    /\ order_column = Some(sampled_schema[3].name)
    /\ ordered_query # <<>>

(***************************************************************************)
(* Properties of the assistant call and of the answer (SpecPipeline).      *)
(***************************************************************************)
\* the request ended after a completion was received and parsed
Parsed == ppc = "done" /\ ai_response.form # "none"

\* C14: when the parsed candidate has no statement text, the pipeline makes no
\* validate and no execute call, returns the explanation with no result data (no
\* data, row_count, columns, insights or charts), and the endpoint reports
\* success = false.
C14_NoStatementNoResults ==
    (Parsed /\ ~has_text(_parse_ai_response(ai_response), "sql_query"))
        => /\ calls.validations = 0
           /\ calls.statements = 0
           /\ "explanation" \in DOMAIN result
           /\ {"data", "row_count", "columns", "insights", "charts"} \cap DOMAIN result = {}
           /\ chat_response(result).query_results = <<>>
           /\ chat_response(result).success = FALSE

\* what the filter's three tests say of the user's own text
Greeting(text) ==
    \E k \in 1..Len(basic_greetings) : contains(strip(lower(text)), basic_greetings[k])
Short(text) == word_count(strip(lower(text))) <= 3
DenyListed(text) ==
    \E k \in 1..Len(forbidden_patterns) : contains(strip(lower(text)), forbidden_patterns[k])

\* C15: for a user question of more than three words that contains a deny-list
\* phrase and no greeting, the request creates no thread message and no run and
\* answers with the canned refusal; a user text with a greeting or of at most three
\* words passes the filter, and so does any text without a deny-list phrase.
C15_DenyListedRefused ==
    calls.filter # "none" =>
        /\ (DenyListed(user_query) /\ ~Greeting(user_query) /\ ~Short(user_query))
              => /\ calls.filter = "refused"
                 /\ calls.thread_messages = 0
                 /\ calls.runs = 0
                 /\ ai_response.form = "refusal"
        /\ (Greeting(user_query) \/ Short(user_query)) => calls.filter = "passed"
        /\ ~DenyListed(user_query) => calls.filter = "passed"

\* a step that ends the wait for the run
WaitEnds == ppc = "polling" /\ ppc' # "polling"

\* the result reports a failure: success = false with an error
ReportsFailure(r) ==
    /\ "success" \in DOMAIN r
    /\ r["success"] = FALSE
    /\ "error" \in DOMAIN r

\* the parts of C16 that the claim and its amendment share: the wait always ends; a
\* timeout is raised only once more than 45 seconds have elapsed; a wait that ends
\* otherwise than with a completed run ends the request with a reported failure;
\* no second run is started for the prompt.
C16_Common ==
    /\ (ppc = "polling") ~> (ppc # "polling")
    /\ [][(WaitEnds /\ calls'.exit = "timeout") => elapsed > timeout_seconds]_vars
    /\ [][(WaitEnds /\ run_status # "completed") =>
            (ppc' = "done" /\ ReportsFailure(result'))]_vars
    /\ [](calls.runs <= 1)

C18_ResultCarriesSuccess ==
    ppc = "done" =>
        /\ "success" \in DOMAIN result
        /\ result["success"] = FALSE => "error" \in DOMAIN result

(***************************************************************************)
(* Properties of the cleaning of a result (SpecClean).                     *)
(***************************************************************************)
NotANumber == {NaN, PosInf, NegInf}

OfType(list, type) == SelectSeq(list, LAMBDA chart : chart.type = type)

\* the frame is a 5-row result with the columns REGION (text) and COUNT (integer),
\* and the synthesis runs without an exception
ScenarioFrame(frame) ==
    /\ Len(frame.rows) = 5
    /\ Len(frame.columns) = 2
    /\ frame.columns[1] = [name |-> <<"R", "E", "G", "I", "O", "N">>, dtype |-> "object"]
    /\ frame.columns[2] = [name |-> <<"C", "O", "U", "N", "T">>, dtype |-> "int64"]
    /\ ~frame.raises

Regions(frame) == {frame.rows[i][1] : i \in 1..Len(frame.rows)}

\* C19, as claimed: for every 5-row result with a text column REGION and an
\* integer column COUNT, the synthesis emits exactly one doughnut chart, and that
\* chart has at most 5 labels.
C19_OneDoughnut ==
    (charts # None /\ ScenarioFrame(data_sample[1])) =>
        /\ Len(OfType(charts[1], "doughnut")) = 1
        /\ Len(OfType(charts[1], "doughnut")[1].labels) <= 5

\* C19, amended: for every such result whose REGION column holds at least two
\* distinct values, the synthesis emits one bar chart of COUNT by REGION and then
\* exactly one doughnut chart, whose labels are the distinct regions (at most 5);
\* when all five rows hold the same region it emits no chart.
C19_OneDoughnutForTwoRegions ==
    (charts # None /\ ScenarioFrame(data_sample[1])) =>
        IF Cardinality(Regions(data_sample[1])) >= 2
        THEN /\ Len(charts[1]) = 2
             /\ charts[1][1].type = "bar"
             /\ charts[1][2].type = "doughnut"
             /\ Len(charts[1][2].labels) = Cardinality(Regions(data_sample[1]))
             /\ {charts[1][2].labels[k] : k \in 1..Len(charts[1][2].labels)}
                    = Regions(data_sample[1])
             /\ Len(charts[1][2].labels) <= 5
        ELSE charts[1] = <<>>

\* the scenario with five distinct regions was charted
C19_Witness ==
    /\ charts # None
    /\ ScenarioFrame(data_sample[1])
    /\ Cardinality(Regions(data_sample[1])) = 5
    /\ Len(OfType(charts[1], "doughnut")) = 1

\* the charts the three generators give for the frame, in the order trend,
\* comparison, distribution
AllCharts(frame) ==
    LET numeric_columns == select_dtypes(frame, {"int64", "float64"})
        categorical_columns == select_dtypes(frame, {"object"})
    IN _generate_trend_charts(frame, numeric_columns, categorical_columns)
       \o _generate_comparison_charts(frame, numeric_columns, categorical_columns)
       \o _generate_distribution_charts(frame, numeric_columns, categorical_columns)

TypeRank(type) == CASE type = "line" -> 1 [] type = "bar" -> 2 [] type = "doughnut" -> 3

\* C26: the synthesis returns at most 3 charts: the first 3 of the charts of the
\* trend (line), comparison (bar) and distribution (doughnut) generators in that
\* order; every chart's type is line, bar or doughnut; when an exception leaves
\* the body the result is the empty list.
C26_AtMostThreeCharts ==
    charts # None =>
        \E given \in {charts[1]} :
            /\ Len(given) <= 3
            /\ \A k \in 1..Len(given) : given[k].type \in {"line", "bar", "doughnut"}
            /\ \A k \in 1..(Len(given) - 1) :
                  TypeRank(given[k].type) <= TypeRank(given[k + 1].type)
            /\ data_sample[1].raises => given = <<>>
            /\ ~data_sample[1].raises =>
                  \E all \in {AllCharts(data_sample[1])} :
                      \E lines \in {Len(OfType(all, "line"))}, bars \in {Len(OfType(all, "bar"))} :
                          /\ given = SubSeq(all, 1, Min(3, Len(all)))
                          /\ \A k \in 1..Len(all) :
                                all[k].type = IF k <= lines THEN "line"
                                              ELSE IF k <= lines + bars THEN "bar"
                                              ELSE "doughnut"

\* a frame with a week column and two metrics, for which the generators give two
\* line charts, two bar charts and a doughnut, was charted: two lines and a bar
C26_Witness ==
    /\ charts # None
    /\ ~data_sample[1].raises
    /\ Len(data_sample[1].columns) = 3
    /\ Len(charts[1]) = 3
    /\ charts[1][1].type = "line"
    /\ charts[1][2].type = "line"
    /\ charts[1][3].type = "bar"
    /\ Len(AllCharts(data_sample[1])) = 5

(***************************************************************************)
(* Properties of concurrent requests (SpecLoop).                           *)
(***************************************************************************)
\* the request is inside a gateway operation: a statement of it is in flight, or
\* one is finished and another still to come
InOperation(r) == cursor_open[r] \/ statements_done[r] > 0

\* C20: for any interleaving of concurrent requests at most one statement is in
\* flight on the shared connection, and a gateway operation that has begun runs
\* to completion before another request's gateway operation begins.
C20_OneStatementInFlight ==
    /\ Cardinality({r \in Requests : cursor_open[r]}) <= 1
    /\ Cardinality({r \in Requests : InOperation(r)}) <= 1
    /\ \A r \in Requests : InOperation(r) => running = r

\* requests interleave: one gave the loop back where it awaits the assistant (it
\* goes on with execute_query) while the other has a statement in flight
C20_Witness ==
    \E r, o \in Requests :
        /\ r # o
        /\ handler[step[r]].what = "execute_query"
        /\ ~InOperation(r)
        /\ running = o
        /\ cursor_open[o]
        /\ handler[step[o]].what = "get_table_schema"

sql_text(d) == IF "sql_query" \in DOMAIN d THEN d["sql_query"] ELSE None

\* C22: a completion that is a valid JSON object is used directly; for any other
\* completion the candidate statement is the content of its first fenced sql
\* block if it has one, otherwise its first line that starts with SELECT or WITH
\* in any letter case, otherwise absent.
C22_CandidateFromText ==
    parse_result # None =>
        IF ai_content[1].document # None
        THEN parse_result[1] = ai_content[1].document[1]
        ELSE sql_text(parse_result[1]) =
                IF ai_content[1].block # <<>> THEN Some(strip(ai_content[1].block))
                ELSE IF is_statement_line(ai_content[1].opening) THEN Some(strip(ai_content[1].opening))
                ELSE IF ai_content[1].line # <<>> THEN Some(strip(ai_content[1].line))
                ELSE None

\* the column's declared type contains DATE, TIMESTAMP or TIME, in any letter case
DateTyped(c) ==
    \/ HasLetters(c.type, <<"D", "A", "T", "E">>)
    \/ HasLetters(c.type, <<"T", "I", "M", "E", "S", "T", "A", "M", "P">>)
    \/ HasLetters(c.type, <<"T", "I", "M", "E">>)

NoNameMatches == \A i \in 1..Len(sampled_schema) : ~NameMatches(sampled_schema[i])

\* C23: when no column name matches an audit pattern, the order column is the
\* first column, in the schema's order, whose declared type contains DATE,
\* TIMESTAMP or TIME; when no column has such a type either, no order column is
\* chosen and the statement is the unordered SELECT * ... LIMIT n.
C23_FirstDateTypedColumn ==
    (ordered_query # <<>> /\ NoNameMatches) =>
        IF \E i \in 1..Len(sampled_schema) : DateTyped(sampled_schema[i])
        THEN \E i \in 1..Len(sampled_schema) :
                /\ DateTyped(sampled_schema[i])
                /\ \A j \in 1..(i - 1) : ~DateTyped(sampled_schema[j])
                /\ order_column = Some(sampled_schema[i].name)
                /\ \E table \in SchemaTables, limit \in {3, 50} :
                        ordered_query = ordered_sample_query(table, sampled_schema[i].name, limit)
        ELSE /\ order_column = None
             /\ ~contains(ordered_query, <<"O", "R", "D", "E", "R", " ", "B", "Y">>)
             /\ \E table \in SchemaTables, limit \in {3, 50} :
                    ordered_query = <<"S", "E", "L", "E", "C", "T", " ", "*", " ", "F", "R", "O", "M", " ">> \o qualified(table)
                                        \o <<" ", "L", "I", "M", "I", "T", " ">> \o str_int(limit)

\* a schema without a name match whose first column has no date type, whose
\* second is a TIME column and whose third is a DATE column has been sampled
C23_Witness ==
    /\ ordered_query # <<>>
    /\ NoNameMatches
    /\ Len(sampled_schema) = 3
    /\ ~DateTyped(sampled_schema[1])
    /\ HasLetters(sampled_schema[2].type, <<"T", "I", "M", "E">>)
    /\ ~HasLetters(sampled_schema[2].type, <<"D", "A", "T", "E">>)
    /\ HasLetters(sampled_schema[3].type, <<"D", "A", "T", "E">>)
    /\ order_column = Some(sampled_schema[2].name)

\* C24: the ordered sample never raises: when its ordered statement fails it runs
\* the unordered sample for the same table and the same limit, and when that
\* fails too it returns an empty result.
C24_SampleNeverRaises ==
    ordered_query # <<>> =>
        /\ sample_call.returned \in {"rows", "empty"}
        /\ Len(sample_call.stmts) = 2 =>
              /\ sample_call.stmts[1] = ordered_query
              /\ sample_call.stmts[2] = <<"S", "E", "L", "E", "C", "T", " ", "*", " ", "F", "R", "O", "M", " ">> \o qualified(sample_call.table)
                                            \o <<" ", "L", "I", "M", "I", "T", " ">> \o str_int(sample_call.limit)
        /\ sample_call.returned = "empty" => Len(sample_call.stmts) = 2

\* an ORDER BY statement and the unordered statement after it have both failed
C24_Witness ==
    /\ order_column # None
    /\ contains(ordered_query, <<"O", "R", "D", "E", "R", " ", "B", "Y">>)
    /\ Len(sample_call.stmts) = 2
    /\ sample_call.limit = 50
    /\ sample_call.returned = "empty"

(***************************************************************************)
(* Properties of the insights read out of a completion (SpecInsights).     *)
(***************************************************************************)
\* the text is one of the list literals
IsListLiteral(text) == \E d \in ListLiterals : d.text = text
ItemsOf(text) == (CHOOSE d \in ListLiterals : d.text = text).value.items

\* the places of the text where a list literal begins
LiteralStarts(text) ==
    {i \in 1..Len(text) : \E j \in i..Len(text) : IsListLiteral(SubSeq(text, i, j))}

\* the first list literal embedded in the text: the longest at the first place
FirstLiteral(text) ==
    LET i == CHOOSE x \in LiteralStarts(text) : \A y \in LiteralStarts(text) : x <= y
        j == CHOOSE x \in i..Len(text) :
                /\ IsListLiteral(SubSeq(text, i, x))
                /\ \A y \in (x + 1)..Len(text) : ~IsListLiteral(SubSeq(text, i, y))
    IN SubSeq(text, i, j)

\* the text from the first opening bracket to the first closing bracket after it
FirstSpan(text) ==
    LET i == CHOOSE x \in 1..Len(text) : text[x] = "[" /\ \A y \in 1..(x - 1) : text[y] # "["
        j == CHOOSE x \in (i + 1)..Len(text) :
                text[x] = "]" /\ \A y \in (i + 1)..(x - 1) : text[y] # "]"
    IN SubSeq(text, i, j)
HasSpan(text) == \E i, j \in 1..Len(text) : i < j /\ text[i] = "[" /\ text[j] = "]"

OneInsight(text) == <<JsonString(text)>>

\* the part of C25 that both readings share: a list comes back whatever the
\* assistant call did, the fallback when it raised, and the executed query keeps
\* its success
C25_Common ==
    /\ analysis[1].success
    /\ DOMAIN analysis[1].insights = 1..Len(analysis[1].insights)
    /\ insight_reply[1].outcome = "raises" => analysis[1].insights = OneInsight(unable)

\* C25, as claimed: the insights are the parsed value when the response parses
\* directly as a list; otherwise the first list literal embedded in the response
\* text; otherwise the raw response text as a single-element list; on any error
\* the one-element fallback; the executed query stays successful.
C25_ListOrLiteralOrText ==
    analysis # None =>
        /\ C25_Common
        /\ insight_reply[1].outcome = "content" =>
            LET text == insight_reply[1].text
            IN analysis[1].insights =
                IF IsListLiteral(strip(text)) THEN ItemsOf(strip(text))
                ELSE IF LiteralStarts(text) # {} THEN ItemsOf(FirstLiteral(text))
                ELSE OneInsight(text)

\* C25, amended: the insights are the parsed value when the response parses
\* directly as a list; when it parses as an object with an "insights" member,
\* that member if it is a list, else its text as a single element; when it parses
\* as any other JSON value, the text of that value as a single element; when it
\* does not parse, the text from the first opening bracket to the first closing
\* bracket after it if that text parses as a list; otherwise the raw response
\* text as a single-element list; on any error the one-element fallback; the
\* executed query stays successful.
C25_ValueOrFirstSpanOrText ==
    analysis # None =>
        /\ C25_Common
        /\ insight_reply[1].outcome = "content" =>
            LET text == insight_reply[1].text
                document == {d \in OtherDocuments : d.text = strip(text)}
            IN analysis[1].insights =
                IF IsListLiteral(strip(text)) THEN ItemsOf(strip(text))
                ELSE IF document # {}
                THEN LET value == (CHOOSE d \in document : TRUE).value
                     IN IF value.type = "dict" /\ value.insights # None
                        THEN IF value.insights[1].type = "list" THEN value.insights[1].items
                             ELSE OneInsight(value.insights[1].text_of)
                        ELSE OneInsight(value.text_of)
                ELSE IF HasSpan(text) /\ IsListLiteral(FirstSpan(text))
                THEN ItemsOf(FirstSpan(text))
                ELSE OneInsight(text)

\* a response with words before two list literals has been read, and the first
\* literal came back
C25_Witness ==
    /\ analysis # None
    /\ insight_reply[1].outcome = "content"
    /\ insight_reply[1].opening = <<"H", "e", "r", "e", " ", "a", "r", "e", " ", "t", "h", "e", " ", "p", "o", "i", "n", "t", "s", ":", " ">>
    /\ insight_reply[1].literal = <<"[", "\"", "2", "9", "1", " ", "a", "g", "e", "n", "t", "s", "\"", ",", " ", "\"", "6", "8", "%", "\"", "]">>
    /\ insight_reply[1].closing = <<" ", "[", "\"", "z", "\"", "]">>
    /\ Len(analysis[1].insights) = 2
    /\ analysis[1].insights[1] = JsonString(<<"2", "9", "1", " ", "a", "g", "e", "n", "t", "s">>)

(***************************************************************************)
(* Properties of concurrent assistant calls (SpecThreads).                 *)
(***************************************************************************)
\* C27: for any interleaving of concurrent calls with the same user id, at most
\* one thread is created for that user id, and every call of that user is given
\* the same thread id.
C27_OneThreadPerUser ==
    /\ \A u \in UserIds :
          Cardinality({t \in 1..Len(threads) : threads[t].created_for = u}) <= 1
    /\ \A c, d \in Callers :
          (/\ assistant_call[c].user_id = assistant_call[d].user_id
           /\ assistant_call[c].thread_id # 0
           /\ assistant_call[d].thread_id # 0)
              => assistant_call[c].thread_id = assistant_call[d].thread_id

\* C28: the text a call returns is the assistant's reply to that call's own
\* message, for any interleaving of calls that share a thread.
C28_OwnReply ==
    \A c \in Callers :
        assistant_call[c].at = "returned" =>
            assistant_call[c].content = [role |-> "assistant", of |-> c]

(***************************************************************************)
(* Where the results of an answer come from (SpecPipeline).                *)
(***************************************************************************)
\* the request's candidate passed validate_query and its statement ran
CandidateExecuted == validation = "passed" /\ sent # <<>> /\ rows >= 0

\* C29: whenever the result carries data rows, a row_count, charts or success =
\* true, those come from executing this request's validated candidate; fields of
\* the completion's own JSON object never supply data or success, and a request
\* whose candidate was rejected or failed to execute returns no data rows and no
\* charts.
C29_ResultsOnlyFromExecution ==
    Parsed =>
        /\ (\/ "data" \in DOMAIN result
            \/ "row_count" \in DOMAIN result
            \/ "charts" \in DOMAIN result
            \/ ("success" \in DOMAIN result /\ result["success"] = TRUE))
              => /\ CandidateExecuted
                 /\ "data" \in DOMAIN result => result["data"].rows = rows
                 /\ "row_count" \in DOMAIN result => result["row_count"] = rows
        /\ (validation = "rejected" \/ (validation = "passed" /\ rows < 0))
              => /\ ~has_data(result)
                 /\ "charts" \notin DOMAIN result

(***************************************************************************)
(* Properties of the login lock (SpecLogin).                               *)
(***************************************************************************)
\* C30: after five consecutive failed login attempts the account is locked: the
\* fifth failure sets a lock of 30 minutes, every further attempt, the correct
\* password included, is rejected until that lock has expired, and a successful
\* login resets the failure counter to 0.
C30_LockedAfterFiveFailures ==
    [][LoginUser =>
        /\ (user_row.failed_login_attempts = 4 /\ user_row'.failed_login_attempts = 5)
              => user_row'.locked_until = Some(minute + 30)
        /\ (/\ user_row.failed_login_attempts >= 5
            /\ user_row.locked_until # None
            /\ minute < user_row.locked_until[1])
              => login'.outcome # "tokens"
        /\ login'.outcome = "tokens" => user_row'.failed_login_attempts = 0]_vars
====
